---- MODULE Spec2Model ----
(***************************************************************************)
(* A model of the DCF valuation engine: the orchestration loop of main.py, *)
(* the point valuation dcf_one (src/model.py), the sensitivity grid        *)
(* (src/sensitivity.py), the statement accessors and ratio derivations     *)
(* (src/financials.py) and the market assumptions (src/market.py).         *)
(*                                                                         *)
(* Numbers.  The program computes in binary floating point.  The model     *)
(* keeps what matters of that: every arithmetic operation rounds its exact *)
(* result to a fixed number of significant digits (Prec decimal digits,    *)
(* round half to even, unbounded exponent), and NaN and the infinities     *)
(* propagate as in IEEE 754.  A value is a record [k, m, e]:               *)
(*   k = "fin"  : the number m * 10^e, m = 0 or 10^(Prec-1) <= |m| < 10^Prec*)
(*   k = "nan"  : NaN            k = "inf" : m = 1 for +inf, -1 for -inf    *)
(*   k = "none" : Python's None (a missing datum)                          *)
(***************************************************************************)
EXTENDS Integers, Sequences, FiniteSets, TLC

\* Significant decimal digits kept by every arithmetic operation.
Prec == 3

Abs(n) == IF n < 0 THEN -n ELSE n
Sign(n) == IF n < 0 THEN -1 ELSE IF n > 0 THEN 1 ELSE 0

RECURSIVE NumDigits(_)
NumDigits(n) == IF n < 10 THEN 1 ELSE 1 + NumDigits(n \div 10)

Fin(m, e) == [k |-> "fin", m |-> m, e |-> e]
Zero == Fin(0, 0)
NaN == [k |-> "nan", m |-> 0, e |-> 0]
Inf(s) == [k |-> "inf", m |-> s, e |-> 0]
None == [k |-> "none", m |-> 0, e |-> 0]
\* A value that is no number (a string, say).
NotANumber == [k |-> "object", m |-> 0, e |-> 0]

IsFin(x) == x.k = "fin"
IsNaN(x) == x.k = "nan"
IsInf(x) == x.k = "inf"
IsNone(x) == x.k = "none"

\* q or q + 1: the quotient of a by p rounded half to even.
RoundHalfEven(a, p) ==
  IF 2 * (a % p) > p \/ (2 * (a % p) = p /\ (a \div p) % 2 = 1)
  THEN (a \div p) + 1 ELSE a \div p
\* A rounded mantissa that carried into one more digit is renormalised.
Carried(sign, q, e) ==
  IF q = 10^Prec THEN Fin(sign * 10^(Prec - 1), e + 1) ELSE Fin(sign * q, e)
\* m * 10^e, where the magnitude of m has d digits.
Scaled(m, e, d) ==
  IF d <= Prec THEN Fin(m * 10^(Prec - d), e - (Prec - d))
  ELSE Carried(Sign(m), RoundHalfEven(Abs(m), 10^(d - Prec)), e + (d - Prec))
\* The value m * 10^e rounded to Prec significant digits, half to even.
Norm(m, e) == IF m = 0 THEN Zero ELSE Scaled(m, e, NumDigits(Abs(m)))

\* A decimal literal n * 10^e, and an int converted to float.
Dec(n, e) == Norm(n, e)
F(n) == Norm(n, 0)

FNeg(a) == IF IsFin(a) \/ IsInf(a) THEN [a EXCEPT !.m = -a.m] ELSE NaN

\* hi + lo for hi.e >= lo.e, with lo shifted by sh = min(hi.e - lo.e, Prec + 1)
\* digits: an operand more than Prec + 1 digits below the other only decides
\* the direction of rounding.
AlignedAdd(hi, lo, sh) ==
  Norm(hi.m * 10^sh + (IF hi.e - lo.e > sh THEN Sign(lo.m) ELSE lo.m), hi.e - sh)
\* a + b of two finite values, correctly rounded.
FinAdd(a, b) ==
  IF a.m = 0 THEN b
  ELSE IF b.m = 0 THEN a
  ELSE AlignedAdd(IF a.e >= b.e THEN a ELSE b, IF a.e >= b.e THEN b ELSE a,
                  IF Abs(a.e - b.e) > Prec + 1 THEN Prec + 1 ELSE Abs(a.e - b.e))

FAdd(a, b) ==
  IF IsFin(a) /\ IsFin(b) THEN FinAdd(a, b)
  ELSE IF IsInf(a) /\ IsInf(b) THEN (IF a.m = b.m THEN a ELSE NaN)
  ELSE IF IsInf(a) /\ IsFin(b) THEN a
  ELSE IF IsFin(a) /\ IsInf(b) THEN b
  ELSE NaN

FSub(a, b) == FAdd(a, FNeg(b))

FMul(a, b) ==
  IF IsFin(a) /\ IsFin(b) THEN Norm(a.m * b.m, a.e + b.e)
  ELSE IF (IsInf(a) \/ IsFin(a)) /\ (IsInf(b) \/ IsFin(b))
       THEN (IF a.m = 0 \/ b.m = 0 THEN NaN ELSE Inf(Sign(a.m) * Sign(b.m)))
  ELSE NaN

\* The quotient n / d of two naturals to Prec + 2 digits, the last one sticky.
Quotient(n, d) == (n \div d) * 10 + (IF n % d = 0 THEN 0 ELSE 1)
\* a / b with numpy's treatment of a zero divisor (inf or NaN, no exception).
FDiv(a, b) ==
  IF IsFin(a) /\ IsFin(b)
  THEN IF b.m = 0
       THEN (IF a.m = 0 THEN NaN ELSE Inf(Sign(a.m)))
       ELSE Norm(Sign(a.m) * Sign(b.m) * Quotient(Abs(a.m) * 10^(Prec + 1), Abs(b.m)),
                 a.e - b.e - (Prec + 2))
  ELSE IF IsInf(a) /\ IsFin(b) THEN Inf(a.m * (IF b.m < 0 THEN -1 ELSE 1))
  ELSE IF IsFin(a) /\ IsInf(b) THEN Zero
  ELSE NaN

\* x ** n for a natural n.
RECURSIVE FPow(_, _)
FPow(x, n) == IF n = 0 THEN F(1) ELSE FMul(FPow(x, n - 1), x)

FAbs(a) == IF IsFin(a) \/ IsInf(a) THEN [a EXCEPT !.m = Abs(a.m)] ELSE NaN

\* Comparisons: every comparison with NaN or None is false.
Cmp(a, b) ==
  IF IsFin(a) /\ IsFin(b) THEN Sign(FinAdd(a, FNeg(b)).m)
  ELSE IF IsInf(a) /\ IsInf(b) THEN Sign(a.m - b.m)
  ELSE IF IsInf(a) THEN a.m
  ELSE 0 - b.m
Ordered(a, b) == (IsFin(a) \/ IsInf(a)) /\ (IsFin(b) \/ IsInf(b))
FLt(a, b) == Ordered(a, b) /\ Cmp(a, b) < 0
FLe(a, b) == Ordered(a, b) /\ Cmp(a, b) <= 0
FGt(a, b) == Ordered(a, b) /\ Cmp(a, b) > 0
FGe(a, b) == Ordered(a, b) /\ Cmp(a, b) >= 0

\* Python's max(a, b) and min(a, b): the first argument unless the second
\* compares strictly greater (smaller).
PyMax(a, b) == IF FGt(b, a) THEN b ELSE a
PyMin(a, b) == IF FLt(b, a) THEN b ELSE a

(***************************************************************************)
(* Period-indexed series (pandas Series) and statement tables.             *)
(* A series is a sequence of [p |-> period, v |-> value] in index order.   *)
(* A statement table maps each row label it has to that row over the       *)
(* table's columns, most recent period first, NaN where a cell is missing; *)
(* the empty table is the function with no labels.                         *)
(***************************************************************************)
EmptySeries == <<>>

Periods(s) == [i \in 1..Len(s) |-> s[i].p]
PeriodSet(s) == {s[i].p : i \in 1..Len(s)}
At(s, p) == (CHOOSE i \in 1..Len(s) : s[i].p = p)
ValueAt(s, p) == IF p \in PeriodSet(s) THEN s[At(s, p)].v ELSE NaN

IsMissing(x) == IsNaN(x) \/ IsNone(x)
DropNa(s) == SelectSeq(s, LAMBDA x : ~IsMissing(x.v))
Reversed(s) == [i \in 1..Len(s) |-> s[Len(s) + 1 - i]]
TailN(s, n) == SubSeq(s, Len(s) - n + 1, Len(s))
Min2(a, b) == IF a < b THEN a ELSE b
Max2(a, b) == IF a > b THEN a ELSE b
ReplaceInf(s) == [i \in 1..Len(s) |-> IF IsInf(s[i].v) THEN [s[i] EXCEPT !.v = NaN] ELSE s[i]]
SeriesAbs(s) == [i \in 1..Len(s) |-> [s[i] EXCEPT !.v = FAbs(s[i].v)]]

RECURSIVE Ascending(_)
Ascending(S) ==
  IF S = {} THEN <<>>
  ELSE LET lo == CHOOSE x \in S : \A y \in S : x <= y
       IN <<lo>> \o Ascending(S \ {lo})

\* Index of a binary operation on two series: the common index as it stands
\* when both have the same index, otherwise the sorted union of the two.
JoinIndex(a, b) ==
  IF Periods(a) = Periods(b) THEN Periods(a)
  ELSE Ascending(PeriodSet(a) \cup PeriodSet(b))

SeriesDiv(a, b) ==
  LET ix == JoinIndex(a, b)
  IN [i \in 1..Len(ix) |-> [p |-> ix[i], v |-> FDiv(ValueAt(a, ix[i]), ValueAt(b, ix[i]))]]

SeriesSub(a, b) ==
  LET ix == JoinIndex(a, b)
  IN [i \in 1..Len(ix) |-> [p |-> ix[i], v |-> FSub(ValueAt(a, ix[i]), ValueAt(b, ix[i]))]]

\* Index.intersection(sort=False): the common periods in the order of the left.
Intersection(a, b) == SelectSeq(Periods(a), LAMBDA p : p \in PeriodSet(b))
Loc(s, ix) == [i \in 1..Len(ix) |-> [p |-> ix[i], v |-> ValueAt(s, ix[i])]]

RECURSIVE SumValues(_, _)
SumValues(s, n) == IF n = 0 THEN Zero ELSE FAdd(SumValues(s, n - 1), s[n].v)
Mean(s) == IF Len(s) = 0 THEN NaN ELSE FDiv(SumValues(s, Len(s)), F(Len(s)))

Median(s) ==
  IF Len(s) = 0 THEN NaN
  ELSE LET srt == SortSeq(s, LAMBDA x, y : FLt(x.v, y.v))
           n == Len(s)
       IN IF n % 2 = 1 THEN srt[(n + 1) \div 2].v
          ELSE FDiv(FAdd(srt[n \div 2].v, srt[n \div 2 + 1].v), F(2))

\* Series.pct_change(): x[i] / x[i-1] - 1, NaN for the first period.
PctChange(s) ==
  [i \in 1..Len(s) |->
     [p |-> s[i].p,
      v |-> IF i = 1 THEN NaN ELSE FSub(FDiv(s[i].v, s[i - 1].v), F(1))]]

IsEmptyTable(df) == DOMAIN df = {}

RECURSIVE get_row_from(_, _, _)
get_row_from(df, labels, i) ==
  IF i > Len(labels) THEN NaN
  ELSE IF labels[i] \in DOMAIN df /\ Len(DropNa(df[labels[i]])) > 0
       THEN DropNa(df[labels[i]])[1].v
       ELSE get_row_from(df, labels, i + 1)

get_row(df, labels) ==
  IF IsEmptyTable(df) THEN NaN ELSE get_row_from(df, labels, 1)

get_series(df, label) ==
  IF IsEmptyTable(df) THEN EmptySeries
  ELSE IF label \notin DOMAIN df THEN EmptySeries
  ELSE DropNa(df[label])

best_effort_cash(balance_sheet) ==
  LET cash == get_row(balance_sheet,
                 <<"Cash And Cash Equivalents", "Cash", "Cash And Short Term Investments">>)
  IN IF ~IsFin(cash) THEN Zero ELSE cash

best_effort_total_debt(balance_sheet) ==
  LET td == get_row(balance_sheet, <<"Total Debt">>)
      ltd0 == get_row(balance_sheet,
                 <<"Long Term Debt", "Long Term Debt And Capital Lease Obligation">>)
      std0 == get_row(balance_sheet,
                 <<"Short Long Term Debt", "Short Term Debt", "Current Debt">>)
      ltd == IF ~IsFin(ltd0) THEN Zero ELSE ltd0
      std == IF ~IsFin(std0) THEN Zero ELSE std0
  IN IF IsFin(td) THEN td ELSE FAdd(ltd, std)

best_effort_revenue_series(income_statement) ==
  get_series(income_statement, "Total Revenue")

best_effort_ebit_series(income_statement) ==
  LET ebit == get_series(income_statement, "EBIT")
  IN IF Len(ebit) > 0 THEN ebit ELSE get_series(income_statement, "Operating Income")

best_effort_da_series(income_statement) ==
  LET da == get_series(income_statement, "Reconciled Depreciation")
  IN IF Len(da) > 0 THEN da
     ELSE get_series(income_statement, "Depreciation And Amortization")

best_effort_interest_expense(income_statement) ==
  LET ie == get_row(income_statement, <<"Interest Expense", "InterestExpense">>)
  IN IF IsFin(ie) THEN FAbs(ie) ELSE NaN

\* The pair (tax, pretax) as a record.
best_effort_tax_and_pretax(income_statement) ==
  LET tax == get_row(income_statement,
                <<"Tax Provision", "Income Tax Expense", "IncomeTaxExpense">>)
      pretax == get_row(income_statement,
                <<"Pretax Income", "Income Before Tax", "IncomeBeforeTax">>)
  IN [tax |-> IF IsFin(tax) THEN FAbs(tax) ELSE NaN,
      pretax |-> IF IsFin(pretax) THEN pretax ELSE NaN]

best_effort_working_capital_ratio(balance_sheet, revenue) ==
  IF IsEmptyTable(balance_sheet) \/ Len(revenue) = 0 THEN Zero
  ELSE LET wc0 == get_series(balance_sheet, "Working Capital")
           ca == get_series(balance_sheet, "Current Assets")
           cl == get_series(balance_sheet, "Current Liabilities")
           wc == IF Len(wc0) = 0 /\ Len(ca) > 0 /\ Len(cl) > 0
                 THEN SeriesSub(ca, cl) ELSE wc0
           common == Intersection(wc, revenue)
           ratio == DropNa(ReplaceInf(SeriesDiv(Loc(wc, common), Loc(revenue, common))))
       IN IF Len(wc) = 0 THEN Zero
          ELSE IF Len(common) = 0 THEN Zero
          ELSE IF Len(ratio) = 0 THEN Zero
          ELSE Median(TailN(ratio, Min2(5, Len(ratio))))

best_effort_capex_ratio(cashflow, revenue) ==
  IF IsEmptyTable(cashflow) \/ Len(revenue) = 0 THEN None
  ELSE LET capex0 == get_series(cashflow, "Capital Expenditure")
           capex == IF Len(capex0) = 0
                    THEN get_series(cashflow, "CapitalExpenditures") ELSE capex0
           common == Intersection(capex, revenue)
           ratio == DropNa(ReplaceInf(
                      SeriesDiv(SeriesAbs(Loc(capex, common)), Loc(revenue, common))))
       IN IF Len(capex) = 0 THEN None
          ELSE IF Len(common) = 0 THEN None
          ELSE IF Len(ratio) = 0 THEN None
          ELSE Median(TailN(ratio, Min2(5, Len(ratio))))

(***************************************************************************)
(* Market assumptions (src/market.py).                                     *)
(***************************************************************************)
get_market_premium(region) ==
  IF region = "AU" THEN Dec(6, -2)
  ELSE IF region = "US" THEN Dec(55, -3)
  ELSE Dec(6, -2)

\* tnx is the last close of the ^TNX history, None when the fetch failed.
fetch_risk_free_rate(region, fallback, tnx) ==
  LET rf == FDiv(tnx, F(100))
  IN IF region = "US" /\ IsFin(tnx) /\ FLt(Zero, rf) /\ FLt(rf, Dec(20, -2))
     THEN rf ELSE fallback

cost_of_equity(beta, risk_free_rate, market_premium) ==
  FAdd(risk_free_rate, FMul(beta, market_premium))

\* float(x) raises for a value that is no number.
IsNumber(x) == IsFin(x) \/ IsNaN(x) \/ IsInf(x)

\* Mutant: the test for a non-finite number is missing.
clamp_unchecked(x, lo, hi, default) ==
  IF IsNone(x) THEN default
  ELSE IF ~IsNumber(x) THEN default
  ELSE PyMin(PyMax(x, lo), hi)

clamp(x, lo, hi, default) ==
  IF IsNone(x) THEN default
  ELSE IF ~IsNumber(x) THEN default
  ELSE IF ~IsFin(x) THEN default
  ELSE PyMin(PyMax(x, lo), hi)

\* Mutant: pure equity cost only when both debt and market cap are <= 0.
calculate_wacc_both(total_debt0, market_cap0, pretax_cost_of_debt, equity_cost, tax_rate) ==
  LET total_debt == PyMax(total_debt0, Zero)
      market_cap == PyMax(market_cap0, Zero)
      wd == FDiv(total_debt, FAdd(total_debt, market_cap))
  IN IF FLe(total_debt, Zero) /\ FLe(market_cap, Zero) THEN equity_cost
     ELSE FAdd(FMul(FSub(F(1), wd), equity_cost),
               FMul(FMul(wd, pretax_cost_of_debt), FSub(F(1), tax_rate)))

calculate_wacc(total_debt0, market_cap0, pretax_cost_of_debt, equity_cost, tax_rate) ==
  LET total_debt == PyMax(total_debt0, Zero)
      market_cap == PyMax(market_cap0, Zero)
      wd == FDiv(total_debt, FAdd(total_debt, market_cap))
  IN IF FLe(total_debt, Zero) \/ FLe(market_cap, Zero) THEN equity_cost
     ELSE FAdd(FMul(FSub(F(1), wd), equity_cost),
               FMul(FMul(wd, pretax_cost_of_debt), FSub(F(1), tax_rate)))


(***************************************************************************)
(* Valuation (src/model.py).  Arrays are sequences of values.              *)
(***************************************************************************)
VecScale(v, c) == [i \in 1..Len(v) |-> FMul(v[i], c)]
VecAdd(v, w) == [i \in 1..Len(v) |-> FAdd(v[i], w[i])]
VecSub(v, w) == [i \in 1..Len(v) |-> FSub(v[i], w[i])]

RECURSIVE SumSeq(_, _)
SumSeq(v, n) == IF n = 0 THEN Zero ELSE FAdd(SumSeq(v, n - 1), v[n])

\* Division of two Python floats: a zero divisor raises ZeroDivisionError.
ZeroDivision == [k |-> "raise", m |-> 0, e |-> 0]
IsRaise(x) == x.k = "raise"
PyDiv(a, b) ==
  IF IsRaise(a) \/ IsRaise(b) THEN ZeroDivision
  ELSE IF IsFin(b) /\ b.m = 0 THEN ZeroDivision
  ELSE FDiv(a, b)

present_value(cash_flows, discount_rate) ==
  [t \in 1..Len(cash_flows) |->
     FDiv(cash_flows[t], FPow(FAdd(F(1), discount_rate), t))]

\* Mutant: the guard tests r < g, so r = g goes through unchanged.
terminal_rate_strict(g, r) == IF FLt(r, g) THEN FAdd(g, Dec(1, -2)) ELSE r

\* The rate terminal_value divides with: r, forced to g + 0.01 when r <= g.
terminal_rate(g, r) == IF FLe(r, g) THEN FAdd(g, Dec(1, -2)) ELSE r

terminal_value(last_fcf, g, r) ==
  PyDiv(FMul(last_fcf, FAdd(F(1), g)), FSub(terminal_rate(g, r), g))

\* Mutant: the fade starts one year early (year < fade_start).
build_growth_path_early(initial_growth, years, terminal_g, fade_start) ==
  [year \in 1..years |->
     IF year < fade_start THEN initial_growth
     ELSE LET t == year - fade_start
              total_fade_years == Max2(years - fade_start, 1)
          IN FAdd(initial_growth,
                  FMul(FSub(terminal_g, initial_growth),
                       FDiv(F(t), F(total_fade_years))))]

build_growth_path(initial_growth, years, terminal_g, fade_start) ==
  [year \in 1..years |->
     IF year <= fade_start THEN initial_growth
     ELSE LET t == year - fade_start
              total_fade_years == Max2(years - fade_start, 1)
          IN FAdd(initial_growth,
                  FMul(FSub(terminal_g, initial_growth),
                       FDiv(F(t), F(total_fade_years))))]

\* rev *= (1 + g) along the growth path: the first n forecast revenues.
RECURSIVE forecast_revenue(_, _, _)
forecast_revenue(last_revenue, growth_path, n) ==
  IF n = 0 THEN last_revenue
  ELSE FMul(forecast_revenue(last_revenue, growth_path, n - 1),
            FAdd(F(1), growth_path[n]))

NoValue == [ticker |-> "", name |-> "", current_price |-> None, dcf_price |-> None,
            wacc |-> None, rf |-> None, market_premium |-> None, tax_rate |-> None,
            pretax_cost_of_debt |-> None, base_avg_growth |-> None,
            scenario_initial_growth |-> None, ebit_margin_median |-> None,
            da_ratio_median |-> None, wc_ratio_median |-> None,
            capex_ratio_used |-> None]
Raise(msg) == [raised |-> TRUE, error |-> msg, value |-> NoValue]
Return(v) == [raised |-> FALSE, error |-> "", value |-> v]

\* dcf_one, lines 61-92: the market assumptions, the balance-sheet inputs, the
\* guarded tax rate and cost of debt, and the WACC.
dcf_rates(snap, cfg) ==
  LET rf == fetch_risk_free_rate(cfg.region, cfg.fallback_rf, snap.tnx)
      market_premium == get_market_premium(cfg.region)
      total_debt == best_effort_total_debt(snap.balancesheet)
      interest_expense == best_effort_interest_expense(snap.financials)
      tp == best_effort_tax_and_pretax(snap.financials)
      raw_tax == IF IsFin(tp.tax) /\ IsFin(tp.pretax) /\ FGt(tp.pretax, Zero)
                 THEN FDiv(tp.tax, tp.pretax) ELSE NaN
      tax_rate == clamp(raw_tax, cfg.tax_rate_min, cfg.tax_rate_max, cfg.default_tax_rate)
      raw_cod == IF IsFin(interest_expense) /\ FGt(total_debt, Zero)
                 THEN FDiv(interest_expense, total_debt) ELSE NaN
      pretax_cost_of_debt ==
        clamp(raw_cod, cfg.cod_min, cfg.cod_max, cfg.default_cost_of_debt)
      eq_cost == cost_of_equity(snap.info.beta, rf, market_premium)
  IN [rf |-> rf, market_premium |-> market_premium,
      cash |-> best_effort_cash(snap.balancesheet), total_debt |-> total_debt,
      tax_rate |-> tax_rate, pretax_cost_of_debt |-> pretax_cost_of_debt,
      wacc |-> calculate_wacc(total_debt, snap.info.marketCap, pretax_cost_of_debt,
                              eq_cost, tax_rate)]

\* dcf_one, lines 108-124: the growth and the ratios of the history (revenue
\* and ebit oldest first).
dcf_ratios(snap, cfg, growth_multiplier, revenue, ebit) ==
  LET base_avg_growth == Mean(DropNa(PctChange(revenue)))
      ebit_margin == DropNa(ReplaceInf(SeriesDiv(ebit, revenue)))
      da == Reversed(DropNa(best_effort_da_series(snap.financials)))
      da_ratio == DropNa(ReplaceInf(SeriesDiv(da, revenue)))
  IN [base_avg_growth |-> base_avg_growth,
      scenario_initial_growth |-> FMul(base_avg_growth, growth_multiplier),
      ebit_margin_median |-> Median(TailN(ebit_margin, Min2(5, Len(ebit_margin)))),
      da_ratio_median |-> IF Len(da_ratio) > 0
                          THEN Median(TailN(da_ratio, Min2(5, Len(da_ratio))))
                          ELSE Dec(3, -2),
      wc_ratio_median |-> best_effort_working_capital_ratio(snap.balancesheet, revenue),
      capex_ratio |-> best_effort_capex_ratio(snap.cashflow, revenue)]

\* dcf_one, lines 127-140.
dcf_forecast_revenues(cfg, last_revenue, scenario_initial_growth) ==
  LET growth_path == build_growth_path(scenario_initial_growth, cfg.forecast_years,
                                       cfg.terminal_growth, cfg.fade_start)
  IN [i \in 1..Len(growth_path) |-> forecast_revenue(last_revenue, growth_path, i)]

\* Mutant: the fallback capex is the extra fraction of revenue alone.
dcf_unlevered_fcf_extra_only(cfg, last_revenue, forecast_revenues, r, tax_rate) ==
  LET forecast_ebit == VecScale(forecast_revenues, r.ebit_margin_median)
      forecast_ebiat == VecScale(forecast_ebit, FSub(F(1), tax_rate))
      forecast_da == VecScale(forecast_revenues, r.da_ratio_median)
      forecast_capex ==
        IF ~IsNone(r.capex_ratio) /\ IsFin(r.capex_ratio)
        THEN VecScale(forecast_revenues, r.capex_ratio)
        ELSE VecScale(forecast_revenues, cfg.fallback_capex_extra_pct_of_rev)
      rev_series == <<last_revenue>> \o forecast_revenues
      delta_wc == [i \in 1..Len(forecast_revenues) |->
                     FMul(r.wc_ratio_median, FSub(rev_series[i + 1], rev_series[i]))]
  IN VecSub(VecSub(VecAdd(forecast_ebiat, forecast_da), forecast_capex), delta_wc)

\* dcf_one, lines 143-158.
dcf_unlevered_fcf(cfg, last_revenue, forecast_revenues, r, tax_rate) ==
  LET forecast_ebit == VecScale(forecast_revenues, r.ebit_margin_median)
      forecast_ebiat == VecScale(forecast_ebit, FSub(F(1), tax_rate))
      forecast_da == VecScale(forecast_revenues, r.da_ratio_median)
      forecast_capex ==
        IF ~IsNone(r.capex_ratio) /\ IsFin(r.capex_ratio)
        THEN VecScale(forecast_revenues, r.capex_ratio)
        ELSE VecAdd(forecast_da,
                    VecScale(forecast_revenues, cfg.fallback_capex_extra_pct_of_rev))
      rev_series == <<last_revenue>> \o forecast_revenues
      delta_wc == [i \in 1..Len(forecast_revenues) |->
                     FMul(r.wc_ratio_median, FSub(rev_series[i + 1], rev_series[i]))]
  IN VecSub(VecSub(VecAdd(forecast_ebiat, forecast_da), forecast_capex), delta_wc)

\* dcf_one, lines 161-185, with the rates m, the ratios r and the flows.
dcf_one_valuation(symbol, snap, cfg, m, r, unlevered_fcf) ==
  LET pv_fcf == present_value(unlevered_fcf, m.wacc)
      tv == terminal_value(unlevered_fcf[Len(unlevered_fcf)], cfg.terminal_growth, m.wacc)
      tv_pv == PyDiv(tv, FPow(FAdd(F(1), m.wacc), cfg.terminal_year))
      ev == FAdd(SumSeq(pv_fcf, Len(pv_fcf)), tv_pv)
      equity_value == FSub(FAdd(ev, m.cash), m.total_debt)
      dcf_price == FDiv(equity_value, snap.info.sharesOutstanding)
  IN IF Len(unlevered_fcf) = 0 THEN Raise("index -1 is out of bounds")
     ELSE IF IsRaise(tv_pv) THEN Raise("float division by zero")
     ELSE Return([ticker |-> symbol,
                  name |-> IF snap.info.longName # "" THEN snap.info.longName
                           ELSE IF snap.info.shortName # "" THEN snap.info.shortName
                           ELSE symbol,
                  current_price |-> snap.close,
                  dcf_price |-> dcf_price, wacc |-> m.wacc, rf |-> m.rf,
                  market_premium |-> m.market_premium, tax_rate |-> m.tax_rate,
                  pretax_cost_of_debt |-> m.pretax_cost_of_debt,
                  base_avg_growth |-> r.base_avg_growth,
                  scenario_initial_growth |-> r.scenario_initial_growth,
                  ebit_margin_median |-> r.ebit_margin_median,
                  da_ratio_median |-> r.da_ratio_median,
                  wc_ratio_median |-> r.wc_ratio_median,
                  capex_ratio_used |-> IF ~IsNone(r.capex_ratio) /\ IsFin(r.capex_ratio)
                                       THEN r.capex_ratio ELSE NaN])

\* dcf_one, lines 127-185, with the rates m and the ratios r.
dcf_one_projection(symbol, snap, cfg, m, last_revenue, r) ==
  dcf_one_valuation(symbol, snap, cfg, m, r,
    dcf_unlevered_fcf(cfg, last_revenue,
      dcf_forecast_revenues(cfg, last_revenue, r.scenario_initial_growth),
      r, m.tax_rate))

\* dcf_one, lines 105-185, with the rates m and the history oldest first.
dcf_one_history(symbol, snap, cfg, growth_multiplier, m, revenue, ebit) ==
  IF Len(revenue) < 2 THEN Raise("Not enough revenue history")
  ELSE IF Len(DropNa(ReplaceInf(SeriesDiv(ebit, revenue)))) = 0
       THEN Raise("Cannot compute EBIT margin")
  ELSE dcf_one_projection(symbol, snap, cfg, m, revenue[Len(revenue)].v,
                          dcf_ratios(snap, cfg, growth_multiplier, revenue, ebit))

\* dcf_one on the data yfinance returns for the symbol (snap).
dcf_one(symbol, snap, cfg, growth_multiplier) ==
  IF IsNone(snap.close) THEN Raise("Missing price history")
  ELSE IF IsNone(snap.info.sharesOutstanding) \/ FLe(snap.info.sharesOutstanding, Zero)
       THEN Raise("Missing or zero sharesOutstanding")
  ELSE IF IsNone(snap.info.beta) \/ ~IsFin(snap.info.beta) THEN Raise("Missing beta")
  ELSE IF IsNone(snap.info.marketCap) \/ FLe(snap.info.marketCap, Zero)
       THEN Raise("Missing or zero marketCap")
  ELSE IF \/ Len(best_effort_revenue_series(snap.financials)) = 0
          \/ Len(best_effort_ebit_series(snap.financials)) = 0
       THEN Raise("Missing revenue/EBIT series")
  ELSE dcf_one_history(symbol, snap, cfg, growth_multiplier, dcf_rates(snap, cfg),
                       Reversed(DropNa(best_effort_revenue_series(snap.financials))),
                       Reversed(DropNa(best_effort_ebit_series(snap.financials))))

(***************************************************************************)
(* Sensitivity grid (src/sensitivity.py).  sensitivity_projection is the   *)
(* part of sensitivity_grid before the grid loop: its own fetch of the     *)
(* data and its own derivation of the flows.  sensitivity_cell is the body *)
(* of the inner loop for one (w_bps, g_bps).                               *)
(***************************************************************************)
NoFrame == [unlevered_fcf |-> <<>>, base_wacc |-> None, cash |-> None,
            total_debt |-> None, shares |-> None]
RaiseFrame(msg) == [raised |-> TRUE, error |-> msg, value |-> NoFrame]

\* sensitivity_grid, lines 61-87.
grid_rates(snap, cfg) ==
  LET rf == fetch_risk_free_rate(cfg.region, cfg.fallback_rf, snap.tnx)
      market_premium == get_market_premium(cfg.region)
      total_debt == best_effort_total_debt(snap.balancesheet)
      interest_expense == best_effort_interest_expense(snap.financials)
      tp == best_effort_tax_and_pretax(snap.financials)
      raw_tax == IF IsFin(tp.tax) /\ IsFin(tp.pretax) /\ FGt(tp.pretax, Zero)
                 THEN FDiv(tp.tax, tp.pretax) ELSE NaN
      tax_rate == clamp(raw_tax, cfg.tax_rate_min, cfg.tax_rate_max, cfg.default_tax_rate)
      raw_cod == IF IsFin(interest_expense) /\ FGt(total_debt, Zero)
                 THEN FDiv(interest_expense, total_debt) ELSE NaN
      pretax_cost_of_debt ==
        clamp(raw_cod, cfg.cod_min, cfg.cod_max, cfg.default_cost_of_debt)
      eq_cost == cost_of_equity(snap.info.beta, rf, market_premium)
  IN [cash |-> best_effort_cash(snap.balancesheet), total_debt |-> total_debt,
      tax_rate |-> tax_rate,
      base_wacc |-> calculate_wacc(total_debt, snap.info.marketCap, pretax_cost_of_debt,
                                   eq_cost, tax_rate)]

\* sensitivity_grid, lines 94-105.
grid_ratios(snap, cfg, growth_multiplier, revenue, ebit) ==
  LET base_avg_growth == Mean(DropNa(PctChange(revenue)))
      ebit_margin == DropNa(ReplaceInf(SeriesDiv(ebit, revenue)))
      da == Reversed(DropNa(best_effort_da_series(snap.financials)))
      da_ratio == DropNa(ReplaceInf(SeriesDiv(da, revenue)))
  IN [scenario_initial_growth |-> FMul(base_avg_growth, growth_multiplier),
      ebit_margin_median |-> Median(TailN(ebit_margin, Min2(5, Len(ebit_margin)))),
      da_ratio_median |-> IF Len(da_ratio) > 0
                          THEN Median(TailN(da_ratio, Min2(5, Len(da_ratio))))
                          ELSE Dec(3, -2),
      wc_ratio_median |-> best_effort_working_capital_ratio(snap.balancesheet, revenue),
      capex_ratio |-> best_effort_capex_ratio(snap.cashflow, revenue)]

\* sensitivity_grid, lines 107-115.
grid_forecast_revenues(cfg, last_revenue, scenario_initial_growth) ==
  LET growth_path == build_growth_path(scenario_initial_growth, cfg.forecast_years,
                                       cfg.terminal_growth, cfg.fade_start)
  IN [i \in 1..Len(growth_path) |-> forecast_revenue(last_revenue, growth_path, i)]

\* sensitivity_grid, lines 117-129.
grid_unlevered_fcf(cfg, last_revenue, forecast_revenues, r, tax_rate) ==
  LET forecast_ebit == VecScale(forecast_revenues, r.ebit_margin_median)
      forecast_ebiat == VecScale(forecast_ebit, FSub(F(1), tax_rate))
      forecast_da == VecScale(forecast_revenues, r.da_ratio_median)
      forecast_capex ==
        IF ~IsNone(r.capex_ratio) /\ IsFin(r.capex_ratio)
        THEN VecScale(forecast_revenues, r.capex_ratio)
        ELSE VecAdd(forecast_da,
                    VecScale(forecast_revenues, cfg.fallback_capex_extra_pct_of_rev))
      rev_series == <<last_revenue>> \o forecast_revenues
      delta_wc == [i \in 1..Len(forecast_revenues) |->
                     FMul(r.wc_ratio_median, FSub(rev_series[i + 1], rev_series[i]))]
  IN VecSub(VecSub(VecAdd(forecast_ebiat, forecast_da), forecast_capex), delta_wc)

\* sensitivity_grid, lines 107-129, with the rates m and the ratios r: what
\* the grid loop reads.
sensitivity_frame(snap, cfg, m, last_revenue, r) ==
  [raised |-> FALSE, error |-> "",
   value |-> [unlevered_fcf |->
                grid_unlevered_fcf(cfg, last_revenue,
                  grid_forecast_revenues(cfg, last_revenue, r.scenario_initial_growth),
                  r, m.tax_rate),
              base_wacc |-> m.base_wacc, cash |-> m.cash,
              total_debt |-> m.total_debt, shares |-> snap.info.sharesOutstanding]]

\* sensitivity_grid, lines 91-129, with the rates m and the history oldest first.
sensitivity_history(snap, cfg, growth_multiplier, m, revenue, ebit) ==
  IF Len(revenue) < 2 \/ Len(ebit) = 0 THEN RaiseFrame("Missing revenue/EBIT history")
  ELSE sensitivity_frame(snap, cfg, m, revenue[Len(revenue)].v,
                         grid_ratios(snap, cfg, growth_multiplier, revenue, ebit))

\* sensitivity_grid, lines 48-129.
sensitivity_projection(symbol, snap, cfg, growth_multiplier) ==
  IF IsNone(snap.close) THEN RaiseFrame("Missing price history")
  ELSE IF IsNone(snap.info.sharesOutstanding) \/ FLe(snap.info.sharesOutstanding, Zero)
       THEN RaiseFrame("Missing or zero sharesOutstanding")
  ELSE IF IsNone(snap.info.beta) \/ ~IsFin(snap.info.beta) THEN RaiseFrame("Missing beta")
  ELSE IF IsNone(snap.info.marketCap) \/ FLe(snap.info.marketCap, Zero)
       THEN RaiseFrame("Missing or zero marketCap")
  ELSE sensitivity_history(snap, cfg, growth_multiplier, grid_rates(snap, cfg),
                           Reversed(DropNa(best_effort_revenue_series(snap.financials))),
                           Reversed(DropNa(best_effort_ebit_series(snap.financials))))

NoRow == [ticker |-> "", wacc_bps_shift |-> 0, terminal_g_bps_shift |-> 0,
          wacc |-> None, terminal_growth |-> None, dcf_price |-> None]

\* Mutant: the equity value leaves the cash out.
sensitivity_cell_no_cash(symbol, frame, cfg, w_bps, g_bps) ==
  LET unlevered_fcf == frame.unlevered_fcf
      w == FAdd(frame.base_wacc, FDiv(F(w_bps), F(10000)))
      tg == FAdd(cfg.terminal_growth, FDiv(F(g_bps), F(10000)))
      pv == present_value(unlevered_fcf, w)
      pv_fcf == SumSeq(pv, Len(pv))
      tv == terminal_value(unlevered_fcf[Len(unlevered_fcf)], tg, w)
      tv_pv == PyDiv(tv, FPow(FAdd(F(1), w), cfg.terminal_year))
      ev == FAdd(pv_fcf, tv_pv)
      equity_value == FSub(ev, frame.total_debt)
      price == FDiv(equity_value, frame.shares)
  IN IF Len(unlevered_fcf) = 0
     THEN [raised |-> TRUE, error |-> "index -1 is out of bounds", value |-> NoRow]
     ELSE IF IsRaise(tv_pv)
     THEN [raised |-> TRUE, error |-> "float division by zero", value |-> NoRow]
     ELSE [raised |-> FALSE, error |-> "",
           value |-> [ticker |-> symbol, wacc_bps_shift |-> w_bps,
                      terminal_g_bps_shift |-> g_bps, wacc |-> w,
                      terminal_growth |-> tg, dcf_price |-> price]]

\* Mutant: the terminal value is computed with the unshifted terminal growth.
sensitivity_cell_base_growth(symbol, frame, cfg, w_bps, g_bps) ==
  LET unlevered_fcf == frame.unlevered_fcf
      w == FAdd(frame.base_wacc, FDiv(F(w_bps), F(10000)))
      tg == FAdd(cfg.terminal_growth, FDiv(F(g_bps), F(10000)))
      pv == present_value(unlevered_fcf, w)
      pv_fcf == SumSeq(pv, Len(pv))
      tv == terminal_value(unlevered_fcf[Len(unlevered_fcf)], cfg.terminal_growth, w)
      tv_pv == PyDiv(tv, FPow(FAdd(F(1), w), cfg.terminal_year))
      ev == FAdd(pv_fcf, tv_pv)
      equity_value == FSub(FAdd(ev, frame.cash), frame.total_debt)
      price == FDiv(equity_value, frame.shares)
  IN IF Len(unlevered_fcf) = 0
     THEN [raised |-> TRUE, error |-> "index -1 is out of bounds", value |-> NoRow]
     ELSE IF IsRaise(tv_pv)
     THEN [raised |-> TRUE, error |-> "float division by zero", value |-> NoRow]
     ELSE [raised |-> FALSE, error |-> "",
           value |-> [ticker |-> symbol, wacc_bps_shift |-> w_bps,
                      terminal_g_bps_shift |-> g_bps, wacc |-> w,
                      terminal_growth |-> tg, dcf_price |-> price]]

sensitivity_cell(symbol, frame, cfg, w_bps, g_bps) ==
  LET unlevered_fcf == frame.unlevered_fcf
      w == FAdd(frame.base_wacc, FDiv(F(w_bps), F(10000)))
      tg == FAdd(cfg.terminal_growth, FDiv(F(g_bps), F(10000)))
      pv == present_value(unlevered_fcf, w)
      pv_fcf == SumSeq(pv, Len(pv))
      tv == terminal_value(unlevered_fcf[Len(unlevered_fcf)], tg, w)
      tv_pv == PyDiv(tv, FPow(FAdd(F(1), w), cfg.terminal_year))
      ev == FAdd(pv_fcf, tv_pv)
      equity_value == FSub(FAdd(ev, frame.cash), frame.total_debt)
      price == FDiv(equity_value, frame.shares)
  IN IF Len(unlevered_fcf) = 0
     THEN [raised |-> TRUE, error |-> "index -1 is out of bounds", value |-> NoRow]
     ELSE IF IsRaise(tv_pv)
     THEN [raised |-> TRUE, error |-> "float division by zero", value |-> NoRow]
     ELSE [raised |-> FALSE, error |-> "",
           value |-> [ticker |-> symbol, wacc_bps_shift |-> w_bps,
                      terminal_g_bps_shift |-> g_bps, wacc |-> w,
                      terminal_growth |-> tg, dcf_price |-> price]]

(***************************************************************************)
(* Configuration (src/config.py) and the data a ticker can come with.      *)
(***************************************************************************)
\* Forecast horizon of the configurations explored (the default is 10).
MaxYears == 3

DCFConfig(years, fade, wbps, gbps, region) ==
  [forecast_years |-> years, fade_start |-> fade,
   terminal_growth |-> Dec(15, -3), terminal_year |-> years,
   region |-> region,
   default_tax_rate |-> Dec(30, -2), tax_rate_min |-> Dec(5, -2),
   tax_rate_max |-> Dec(35, -2),
   default_cost_of_debt |-> Dec(6, -2), cod_min |-> Dec(2, -2), cod_max |-> Dec(12, -2),
   fallback_rf |-> Dec(4, -2),
   fallback_capex_extra_pct_of_rev |-> Dec(5, -3),
   growth_mult_conservative |-> Dec(75, -2),
   growth_mult_base |-> F(1),
   growth_mult_optimistic |-> Dec(125, -2),
   sens_wacc_bps |-> wbps, sens_tg_bps |-> gbps]

DefaultWaccBps == <<-200, -100, 0, 100, 200>>
DefaultTgBps == <<-50, -25, 0, 25, 50>>

\* The default configuration of run(), with the horizon scaled to MaxYears.
DefaultConfig == DCFConfig(MaxYears, MaxYears \div 2, DefaultWaccBps, DefaultTgBps, "AU")

Configs ==
  {DefaultConfig,
   DCFConfig(MaxYears, MaxYears, <<0, 100>>, <<-50, 0, 50>>, "US"),
   DCFConfig(2, 1, <<0>>, <<0>>, "AU"),
   DCFConfig(1, 0, <<100, -100>>, <<>>, "US")}

Col(p, v) == [p |-> p, v |-> v]
EmptyTable == [l \in {} |-> <<>>]

\* Rows list most recent period first; a cell left out is a missing cell.
Revenue3 == ("Total Revenue" :> <<Col(3, F(121)), Col(2, F(110)), Col(1, F(100))>>)
Revenue2 == ("Total Revenue" :> <<Col(3, F(110)), Col(2, F(100))>>)
Revenue1 == ("Total Revenue" :> <<Col(3, F(100)), Col(2, NaN)>>)
RevenueZero == ("Total Revenue" :> <<Col(3, Zero), Col(2, Zero)>>)
Revenues == {Revenue3, Revenue2, Revenue1, RevenueZero, EmptyTable}

Ebit3 == ("EBIT" :> <<Col(3, Dec(242, -1)), Col(2, F(22)), Col(1, F(20))>>)
EbitOperatingIncome ==
  ("EBIT" :> <<Col(3, NaN), Col(2, NaN)>>)
    @@ ("Operating Income" :> <<Col(3, F(11)), Col(2, F(12))>>)
EbitOldOnly == ("EBIT" :> <<Col(1, F(20))>>)
Ebits == {Ebit3, EbitOperatingIncome, EbitOldOnly, EmptyTable}

IncomeFull ==
  ("Tax Provision" :> <<Col(3, F(3)), Col(2, F(2))>>)
    @@ ("Pretax Income" :> <<Col(3, F(10)), Col(2, F(8))>>)
    @@ ("Interest Expense" :> <<Col(3, F(-9)), Col(2, F(-8))>>)
    @@ ("Reconciled Depreciation" :>
          <<Col(3, Dec(605, -2)), Col(2, Dec(55, -1)), Col(1, F(5))>>)
IncomeAlt ==
  ("Income Tax Expense" :> <<Col(3, F(6))>>)
    @@ ("Income Before Tax" :> <<Col(3, F(10))>>)
    @@ ("Depreciation And Amortization" :> <<Col(3, F(4)), Col(2, F(4))>>)

BalanceFull ==
  ("Cash And Cash Equivalents" :> <<Col(3, F(50)), Col(2, F(40))>>)
    @@ ("Total Debt" :> <<Col(3, F(200)), Col(2, F(150))>>)
    @@ ("Working Capital" :> <<Col(3, F(12)), Col(2, F(11)), Col(1, F(10))>>)
BalanceAlt ==
  ("Cash" :> <<Col(3, F(20))>>)
    @@ ("Long Term Debt" :> <<Col(3, F(60))>>)
    @@ ("Current Debt" :> <<Col(3, F(40))>>)
    @@ ("Current Assets" :> <<Col(3, F(30)), Col(2, F(25))>>)
    @@ ("Current Liabilities" :> <<Col(3, F(20)), Col(2, F(20))>>)

CashflowFull == ("Capital Expenditure" :> <<Col(3, F(-6)), Col(2, F(-5)), Col(1, F(-5))>>)
CashflowAlt == ("CapitalExpenditures" :> <<Col(3, F(-4))>>)

\* The remaining statement rows: <<income rows, balance sheet, cash flow>>.
Bundles ==
  {<<IncomeFull, BalanceFull, CashflowFull>>,
   <<IncomeAlt, BalanceAlt, CashflowAlt>>,
   <<EmptyTable, EmptyTable, EmptyTable>>}

GoodInfo == [sharesOutstanding |-> F(10), longName |-> "Acme Ltd", shortName |-> "Acme",
             beta |-> Dec(12, -1), marketCap |-> F(1000)]
BadInfos ==
  {[GoodInfo EXCEPT !.sharesOutstanding = None],
   [GoodInfo EXCEPT !.sharesOutstanding = Zero],
   [GoodInfo EXCEPT !.beta = None],
   [GoodInfo EXCEPT !.beta = NaN],
   [GoodInfo EXCEPT !.marketCap = Zero, !.longName = ""]}

Snapshot(info, close, income, balance, cashflow) ==
  [info |-> info, close |-> close, tnx |-> Dec(45, -1),
   financials |-> income, balancesheet |-> balance, cashflow |-> cashflow]

GoodSnapshot ==
  Snapshot(GoodInfo, F(9), Revenue3 @@ Ebit3 @@ IncomeFull, BalanceFull, CashflowFull)

\* What yfinance may hold for a symbol.
Snapshots ==
  {Snapshot(GoodInfo, F(9), r @@ e @@ b[1], b[2], b[3]) :
      r \in Revenues, e \in Ebits, b \in Bundles}
  \cup {[GoodSnapshot EXCEPT !.info = i] : i \in BadInfos}
  \cup {[GoodSnapshot EXCEPT !.close = None]}

\* The data of the tickers of a run.
RunSnapshots ==
  {GoodSnapshot,
   Snapshot(GoodInfo, F(5), Revenue2 @@ EbitOperatingIncome @@ IncomeAlt,
            BalanceAlt, CashflowAlt),
   Snapshot(GoodInfo, F(5), Revenue1 @@ Ebit3 @@ IncomeFull, BalanceFull, CashflowFull),
   Snapshot(GoodInfo, F(5), Revenue2 @@ EbitOldOnly @@ IncomeFull, BalanceFull, CashflowFull),
   [GoodSnapshot EXCEPT !.info.sharesOutstanding = None]}

NoSnapshot == Snapshot(GoodInfo, None, EmptyTable, EmptyTable, EmptyTable)

\* Cells of the "Ticker" column, as strings of characters.
TickerCells == {<<"A">>, <<" ", "B", " ">>, <<" ">>}
\* Number of rows of the input file.
MaxTickers == 2

IsSpace(c) == c = " "
RECURSIVE LStrip(_)
LStrip(s) == IF Len(s) > 0 /\ IsSpace(Head(s)) THEN LStrip(Tail(s)) ELSE s
RECURSIVE RStrip(_)
RStrip(s) ==
  IF Len(s) > 0 /\ IsSpace(s[Len(s)]) THEN RStrip(SubSeq(s, 1, Len(s) - 1)) ELSE s
Strip(s) == RStrip(LStrip(s))

(***************************************************************************)
(* State.                                                                  *)
(***************************************************************************)
VARIABLES
  cfg,               \* the DCFConfig of the run or call
  tickers,           \* run: the "Ticker" column
  idx,               \* run: number of cells of the column consumed
  pc,                \* control position
  symbol,            \* the symbol being valued
  snap,              \* what yfinance holds for the symbol
  gm,                \* growth_multiplier of the sensitivity_grid call
  cons, base, opt,   \* run: results of the three dcf_one calls
  error,             \* the exception in flight
  scenario_rows, base_detail_rows, sens_rows,   \* run: collected results
  log,               \* run: lines printed per ticker
  saved,             \* run: output files written
  frame,             \* sensitivity_grid: flows and scalars derived before the loop
  rows,              \* sensitivity_grid: rows
  wi, gi,            \* sensitivity_grid: positions of the two loops
  calls,             \* instrumentation: fetches and flow derivations, in order
  args, ret          \* a direct call of one function: arguments and result

vars == <<cfg, tickers, idx, pc, symbol, snap, gm, cons, base, opt, error,
          scenario_rows, base_detail_rows, sens_rows, log, saved,
          frame, rows, wi, gi, calls, args, ret>>

runVars == <<tickers, idx, cons, opt, scenario_rows, base_detail_rows, sens_rows,
             log, saved>>
gridVars == <<frame, rows, wi, gi>>
callVars == <<args, ret>>

Unset == Raise("unset")

RunIdle ==
  /\ tickers = <<>> /\ idx = 0 /\ cons = Unset /\ opt = Unset
  /\ scenario_rows = <<>> /\ base_detail_rows = <<>> /\ sens_rows = <<>>
  /\ log = <<>> /\ saved = {}
GridIdle == frame = NoFrame /\ rows = <<>> /\ wi = 1 /\ gi = 1
CallIdle == args = <<>> /\ ret = None

Fetched(by, mult) == [stage |-> "fetch", by |-> by, gm |-> mult]
Derived(by, mult) == [stage |-> "flows", by |-> by, gm |-> mult]
\* What a call that fetched, and derived the flows unless it raised, records.
Recorded(by, mult, raised) ==
  <<Fetched(by, mult)>> \o (IF raised THEN <<>> ELSE <<Derived(by, mult)>>)

(***************************************************************************)
(* sensitivity_grid, step by step.                                         *)
(***************************************************************************)
\* Lines 48-129: fetch, derive, project.  A fetch may fail.
SensProject ==
  /\ pc = "sens_call"
  /\ \E transient \in BOOLEAN :
       LET r == IF transient THEN RaiseFrame("fetch failed")
                ELSE sensitivity_projection(symbol, snap, cfg, gm)
       IN /\ calls' = calls \o Recorded("sensitivity_grid", gm, r.raised)
          /\ frame' = r.value
          /\ error' = r.error
          /\ pc' = IF r.raised THEN "sens_raised" ELSE "sens_cell"
  /\ rows' = <<>> /\ wi' = 1 /\ gi' = 1
  /\ UNCHANGED <<cfg, symbol, snap, gm, base, runVars, callVars>>

\* Mutant: every pass of the loop fetches and derives the flows again.
SensCellRederiving ==
  /\ pc = "sens_cell"
  /\ wi <= Len(cfg.sens_wacc_bps) /\ gi <= Len(cfg.sens_tg_bps)
  /\ LET p == sensitivity_projection(symbol, snap, cfg, gm)
         r == sensitivity_cell(symbol, p.value, cfg, cfg.sens_wacc_bps[wi], cfg.sens_tg_bps[gi])
     IN /\ frame' = p.value
        /\ calls' = calls \o Recorded("sensitivity_grid", gm, p.raised)
        /\ rows' = IF r.raised THEN rows ELSE Append(rows, r.value)
        /\ error' = r.error
        /\ pc' = IF r.raised THEN "sens_raised" ELSE "sens_cell"
  /\ IF gi < Len(cfg.sens_tg_bps)
     THEN gi' = gi + 1 /\ wi' = wi
     ELSE gi' = 1 /\ wi' = wi + 1
  /\ UNCHANGED <<cfg, symbol, snap, gm, base, runVars, callVars>>

\* One pass of the inner loop body, lines 133-152.
SensCell ==
  /\ pc = "sens_cell"
  /\ wi <= Len(cfg.sens_wacc_bps) /\ gi <= Len(cfg.sens_tg_bps)
  /\ LET r == sensitivity_cell(symbol, frame, cfg, cfg.sens_wacc_bps[wi], cfg.sens_tg_bps[gi])
     IN /\ rows' = IF r.raised THEN rows ELSE Append(rows, r.value)
        /\ error' = r.error
        /\ pc' = IF r.raised THEN "sens_raised" ELSE "sens_cell"
  /\ IF gi < Len(cfg.sens_tg_bps)
     THEN gi' = gi + 1 /\ wi' = wi
     ELSE gi' = 1 /\ wi' = wi + 1
  /\ UNCHANGED <<cfg, symbol, snap, gm, base, frame, calls, runVars, callVars>>

\* Line 154: both loops are exhausted.
SensReturn ==
  /\ pc = "sens_cell"
  /\ wi > Len(cfg.sens_wacc_bps) \/ Len(cfg.sens_tg_bps) = 0
  /\ pc' = "sens_ret"
  /\ UNCHANGED <<cfg, symbol, snap, gm, base, error, gridVars, calls, runVars, callVars>>

(***************************************************************************)
(* run() of main.py.                                                       *)
(***************************************************************************)
RECURSIVE SeqsUpTo(_, _)
SeqsUpTo(S, n) ==
  IF n = 0 THEN {<<>>}
  ELSE LET shorter == SeqsUpTo(S, n - 1)
       IN shorter \cup {Append(q, x) : q \in shorter, x \in S}

Init ==
  /\ cfg = DefaultConfig
  /\ tickers \in SeqsUpTo(TickerCells, MaxTickers)
  /\ idx = 0 /\ pc = "loop"
  /\ symbol = <<>> /\ snap = NoSnapshot /\ gm = F(1)
  /\ cons = Unset /\ base = Unset /\ opt = Unset /\ error = ""
  /\ scenario_rows = <<>> /\ base_detail_rows = <<>> /\ sens_rows = <<>>
  /\ log = <<>> /\ saved = {}
  /\ GridIdle /\ calls = <<>> /\ CallIdle

\* Lines 22-25: a blank cell is skipped.
LoopSkip ==
  /\ pc = "loop" /\ idx < Len(tickers)
  /\ Strip(tickers[idx + 1]) = <<>>
  /\ idx' = idx + 1
  /\ UNCHANGED <<cfg, tickers, pc, symbol, snap, gm, cons, base, opt, error,
                 scenario_rows, base_detail_rows, sens_rows, log, saved,
                 gridVars, calls, callVars>>

\* Lines 22-27: the next symbol enters the try block.
LoopBegin ==
  /\ pc = "loop" /\ idx < Len(tickers)
  /\ Strip(tickers[idx + 1]) # <<>>
  /\ symbol' = Strip(tickers[idx + 1])
  /\ snap' \in RunSnapshots
  /\ calls' = <<>>
  /\ pc' = "cons"
  /\ UNCHANGED <<cfg, tickers, idx, gm, cons, base, opt, error,
                 scenario_rows, base_detail_rows, sens_rows, log, saved,
                 gridVars, callVars>>

\* A dcf_one call of run(): the result on the data, or a failed fetch.
DcfResult(transient, mult) ==
  IF transient THEN Raise("fetch failed") ELSE dcf_one(symbol, snap, cfg, mult)

\* Line 29.
CallCons ==
  /\ pc = "cons"
  /\ \E transient \in BOOLEAN :
       LET r == DcfResult(transient, cfg.growth_mult_conservative)
       IN /\ cons' = r /\ error' = r.error
          /\ calls' = calls \o Recorded("dcf_one", cfg.growth_mult_conservative, r.raised)
          /\ pc' = IF r.raised THEN "except" ELSE "base"
  /\ UNCHANGED <<cfg, tickers, idx, symbol, snap, gm, base, opt,
                 scenario_rows, base_detail_rows, sens_rows, log, saved,
                 gridVars, callVars>>

\* Line 30.
CallBase ==
  /\ pc = "base"
  /\ \E transient \in BOOLEAN :
       LET r == DcfResult(transient, cfg.growth_mult_base)
       IN /\ base' = r /\ error' = r.error
          /\ calls' = calls \o Recorded("dcf_one", cfg.growth_mult_base, r.raised)
          /\ pc' = IF r.raised THEN "except" ELSE "opt"
  /\ UNCHANGED <<cfg, tickers, idx, symbol, snap, gm, cons, opt,
                 scenario_rows, base_detail_rows, sens_rows, log, saved,
                 gridVars, callVars>>

\* Line 31.
CallOpt ==
  /\ pc = "opt"
  /\ \E transient \in BOOLEAN :
       LET r == DcfResult(transient, cfg.growth_mult_optimistic)
       IN /\ opt' = r /\ error' = r.error
          /\ calls' = calls \o Recorded("dcf_one", cfg.growth_mult_optimistic, r.raised)
          /\ pc' = IF r.raised THEN "except" ELSE "append"
  /\ UNCHANGED <<cfg, tickers, idx, symbol, snap, gm, cons, base,
                 scenario_rows, base_detail_rows, sens_rows, log, saved,
                 gridVars, callVars>>

ScenarioRow ==
  [ticker |-> symbol, name |-> base.value.name,
   current_price |-> base.value.current_price,
   conservative_price |-> cons.value.dcf_price,
   base_price |-> base.value.dcf_price,
   optimistic_price |-> opt.value.dcf_price,
   wacc |-> base.value.wacc, rf |-> base.value.rf, tax_rate |-> base.value.tax_rate]

\* Lines 33-48: the two appends, then the call of sensitivity_grid.
AppendRows ==
  /\ pc = "append"
  /\ scenario_rows' = Append(scenario_rows, ScenarioRow)
  /\ base_detail_rows' = Append(base_detail_rows, base.value)
  /\ gm' = cfg.growth_mult_base
  /\ pc' = "sens_call"
  /\ UNCHANGED <<cfg, tickers, idx, symbol, snap, cons, base, opt, error,
                 sens_rows, log, saved, gridVars, calls, callVars>>

\* Lines 49-51.
SensAppend ==
  /\ pc = "sens_ret"
  /\ sens_rows' = Append(sens_rows, rows)
  /\ log' = Append(log, [line |-> "Done", symbol |-> symbol])
  /\ idx' = idx + 1
  /\ pc' = "loop"
  /\ UNCHANGED <<cfg, tickers, symbol, snap, gm, cons, base, opt, error,
                 scenario_rows, base_detail_rows, saved, gridVars, calls, callVars>>

\* Mutant: no handler; the exception leaves run().
ExceptPropagating ==
  /\ pc \in {"except", "sens_raised"}
  /\ pc' = "crashed"
  /\ UNCHANGED <<cfg, tickers, idx, symbol, snap, gm, cons, base, opt, error,
                 scenario_rows, base_detail_rows, sens_rows, log, saved,
                 gridVars, calls, callVars>>

\* Lines 53-54: the exception of the try block is caught and reported.
Except ==
  /\ pc \in {"except", "sens_raised"}
  /\ log' = Append(log, [line |-> "Error processing", symbol |-> symbol])
  /\ idx' = idx + 1
  /\ pc' = "loop"
  /\ UNCHANGED <<cfg, tickers, symbol, snap, gm, cons, base, opt, error,
                 scenario_rows, base_detail_rows, sens_rows, saved,
                 gridVars, calls, callVars>>

\* Line 22: the column is exhausted.
LoopEnd ==
  /\ pc = "loop" /\ idx = Len(tickers)
  /\ pc' = "output"
  /\ UNCHANGED <<cfg, tickers, idx, symbol, snap, gm, cons, base, opt, error,
                 scenario_rows, base_detail_rows, sens_rows, log, saved,
                 gridVars, calls, callVars>>

\* Lines 56-59.
WriteWide ==
  /\ pc = "output"
  /\ saved' = saved \cup {"dcf_results_scenarios_wide.csv"}
  /\ pc' = "long"
  /\ UNCHANGED <<cfg, tickers, idx, symbol, snap, gm, cons, base, opt, error,
                 scenario_rows, base_detail_rows, sens_rows, log,
                 gridVars, calls, callVars>>

\* Lines 62-63: to_powerbi_long melts the three price columns, which a frame
\* built from no rows does not have.
WriteLong ==
  /\ pc = "long"
  /\ IF scenario_rows = <<>>
     THEN /\ pc' = "crashed" /\ error' = "KeyError" /\ saved' = saved
     ELSE /\ pc' = "details" /\ error' = error
          /\ saved' = saved \cup {"dcf_results_scenarios_long.csv"}
  /\ UNCHANGED <<cfg, tickers, idx, symbol, snap, gm, cons, base, opt,
                 scenario_rows, base_detail_rows, sens_rows, log,
                 gridVars, calls, callVars>>

\* Lines 65-69.
WriteDetails ==
  /\ pc = "details"
  /\ saved' = saved \cup {"dcf_results_base_details.csv"}
              \cup (IF sens_rows # <<>> THEN {"dcf_results_sensitivity_long.csv"} ELSE {})
  /\ pc' = "done"
  /\ UNCHANGED <<cfg, tickers, idx, symbol, snap, gm, cons, base, opt, error,
                 scenario_rows, base_detail_rows, sens_rows, log,
                 gridVars, calls, callVars>>

Next ==
  \/ LoopSkip \/ LoopBegin \/ CallCons \/ CallBase \/ CallOpt \/ AppendRows
  \/ SensProject \/ SensCell \/ SensReturn \/ SensAppend \/ Except
  \/ LoopEnd \/ WriteWide \/ WriteLong \/ WriteDetails

Spec == Init /\ [][Next]_vars

\* The steps of run() that only move data, and the steps that compute.
Control ==
  \/ LoopSkip \/ LoopBegin \/ AppendRows \/ SensReturn \/ SensAppend \/ Except
  \/ LoopEnd \/ WriteWide \/ WriteLong \/ WriteDetails
Compute == CallCons \/ CallBase \/ CallOpt \/ SensProject \/ SensCell
\* ENABLED <<Compute>>_vars, read off the guards of the five steps.
ComputeEnabled ==
  \/ pc \in {"cons", "base", "opt", "sens_call"}
  \/ pc = "sens_cell" /\ wi <= Len(cfg.sens_wacc_bps) /\ gi <= Len(cfg.sens_tg_bps)

\* run() is one sequential thread: it takes its next step while it has one.
\* The second conjunct is WF_vars(Compute) with ENABLED written out.
FairSpec ==
  /\ Spec
  /\ WF_vars(Control)
  /\ ([]<>(~ComputeEnabled) \/ []<><<Compute>>_vars)

(***************************************************************************)
(* dcf_one and sensitivity_grid called directly on any data.               *)
(***************************************************************************)
Multipliers == {Dec(75, -2), F(1), Dec(125, -2)}

ValuationInit ==
  /\ cfg \in Configs
  /\ snap \in Snapshots
  /\ gm \in Multipliers
  /\ symbol = <<"A">>
  /\ pc = "dcf_call"
  /\ base = Unset /\ error = ""
  /\ RunIdle /\ GridIdle /\ calls = <<>> /\ CallIdle

DirectDcfOne ==
  /\ pc = "dcf_call"
  /\ base' = dcf_one(symbol, snap, cfg, gm)
  /\ error' = base'.error
  /\ calls' = calls \o Recorded("dcf_one", gm, base'.raised)
  /\ pc' = "sens_call"
  /\ UNCHANGED <<cfg, symbol, snap, gm, runVars, gridVars, callVars>>

ValuationNext == DirectDcfOne \/ SensProject \/ SensCell \/ SensReturn

ValuationSpec == ValuationInit /\ [][ValuationNext]_vars

(***************************************************************************)
(* The pure functions called directly on drawn arguments.                  *)
(***************************************************************************)
Idle ==
  /\ cfg = DefaultConfig /\ symbol = <<>> /\ snap = NoSnapshot /\ gm = F(1)
  /\ base = Unset /\ error = "" /\ calls = <<>>
  /\ RunIdle /\ GridIdle
idleVars == <<cfg, symbol, snap, gm, base, error, calls, runVars, gridVars>>

\* terminal_value(last_fcf, g, r)
Flows == {F(100), F(-50), Zero, Dec(174, -1)}
Rates == {Dec(-5, -2), Zero, Dec(15, -3), Dec(2, -2), Dec(8, -2), Dec(986, -4),
          Dec(5, -1), Dec(125, -2)}

TerminalInit ==
  /\ pc = "terminal_value"
  /\ args \in {<<f, g, r>> : f \in Flows, g \in Rates, r \in Rates}
  /\ ret = None
  /\ Idle

TerminalValueCall ==
  /\ pc = "terminal_value"
  /\ ret' = terminal_value(args[1], args[2], args[3])
  /\ pc' = "returned"
  /\ UNCHANGED <<args, idleVars>>

TerminalSpec == TerminalInit /\ [][TerminalValueCall]_vars

\* clamp(x, lo, hi, default)
ClampValues == {None, NotANumber, NaN, Inf(1), Inf(-1), Dec(-1, -1), Dec(5, -2),
                Dec(2, -1), Dec(35, -2), Dec(5, -1)}
ClampBands == {<<Dec(5, -2), Dec(35, -2)>>, <<Dec(2, -2), Dec(12, -2)>>,
               <<Dec(1, -1), Dec(1, -1)>>}
ClampDefaults == {Dec(30, -2), Dec(6, -2), Dec(1, -1), Dec(5, -1)}

ClampInit ==
  /\ pc = "clamp"
  /\ args \in {<<x, b[1], b[2], d>> : x \in ClampValues, b \in ClampBands, d \in ClampDefaults}
  /\ ret = None
  /\ Idle

ClampCall ==
  /\ pc = "clamp"
  /\ ret' = clamp(args[1], args[2], args[3], args[4])
  /\ pc' = "returned"
  /\ UNCHANGED <<args, idleVars>>

\* clamp on drawn arguments, and dcf_one (which clamps twice) on drawn data.
ClampSpec == (ClampInit \/ ValuationInit) /\ [][ClampCall \/ DirectDcfOne]_vars

\* build_growth_path(initial_growth, years, terminal_g, fade_start)
Growths == {Dec(1, -1), Dec(75, -3), Dec(123, -2), Dec(-5, -2), Dec(15, -3),
            Dec(123, -3), Zero}
TerminalGrowths == {Dec(15, -3), Dec(2, -2), Zero, Dec(175, -4)}

GrowthInit ==
  /\ pc = "build_growth_path"
  /\ args \in {<<g0, years, gT, fade>> :
                 g0 \in Growths, years \in 1..(MaxYears + 1), gT \in TerminalGrowths,
                 fade \in 0..(MaxYears + 2)}
  /\ ret = None
  /\ Idle

GrowthPathCall ==
  /\ pc = "build_growth_path"
  /\ ret' = build_growth_path(args[1], args[2], args[3], args[4])
  /\ pc' = "returned"
  /\ UNCHANGED <<args, idleVars>>

GrowthSpec == GrowthInit /\ [][GrowthPathCall]_vars

\* calculate_wacc(total_debt, market_cap, pretax_cost_of_debt, equity_cost, tax_rate)
Debts == {F(-10), Zero, F(200), F(1000)}
MarketCaps == {F(-5), Zero, F(1000), F(300)}
DebtCosts == {Dec(2, -2), Dec(6, -2), Dec(12, -2)}
EquityCosts == {Dec(9, -2), Dec(112, -3)}
TaxRates == {Dec(5, -2), Dec(30, -2)}

WaccInit ==
  /\ pc = "calculate_wacc"
  /\ args \in {<<d, mc, kd, ke, t>> : d \in Debts, mc \in MarketCaps, kd \in DebtCosts,
                 ke \in EquityCosts, t \in TaxRates}
  /\ ret = None
  /\ Idle

WaccCall ==
  /\ pc = "calculate_wacc"
  /\ ret' = calculate_wacc(args[1], args[2], args[3], args[4], args[5])
  /\ pc' = "returned"
  /\ UNCHANGED <<args, idleVars>>

WaccSpec == WaccInit /\ [][WaccCall]_vars

\* best_effort_cash(balance_sheet) and best_effort_total_debt(balance_sheet),
\* then the start of sensitivity_grid on the same balance sheet.
CashRows ==
  {EmptyTable,
   ("Cash And Cash Equivalents" :> <<Col(3, F(50)), Col(2, F(40))>>),
   ("Cash And Cash Equivalents" :> <<Col(3, F(-5)), Col(2, F(40))>>),
   ("Cash And Cash Equivalents" :> <<Col(3, NaN), Col(2, F(40))>>),
   ("Cash And Cash Equivalents" :> <<Col(3, NaN)>>) @@ ("Cash" :> <<Col(3, F(20))>>),
   ("Cash And Short Term Investments" :> <<Col(3, F(-7))>>)}
TotalDebtRows ==
  {EmptyTable,
   ("Total Debt" :> <<Col(3, F(200)), Col(2, F(150))>>),
   ("Total Debt" :> <<Col(3, F(-30))>>),
   ("Total Debt" :> <<Col(3, NaN), Col(2, NaN)>>)}
LongDebtRows ==
  {EmptyTable,
   ("Long Term Debt" :> <<Col(3, F(60))>>),
   ("Long Term Debt" :> <<Col(3, F(-60))>>),
   ("Long Term Debt And Capital Lease Obligation" :> <<Col(3, F(70))>>)}
ShortDebtRows ==
  {EmptyTable,
   ("Short Long Term Debt" :> <<Col(3, F(40))>>),
   ("Short Term Debt" :> <<Col(3, F(30))>>),
   ("Current Debt" :> <<Col(3, F(-10))>>)}
BalanceSheets ==
  {c @@ td @@ ltd @@ std :
     c \in CashRows, td \in TotalDebtRows, ltd \in LongDebtRows, std \in ShortDebtRows}

BalanceInit ==
  /\ cfg = DCFConfig(2, 1, <<0>>, <<0>>, "AU")
  /\ snap \in {[GoodSnapshot EXCEPT !.balancesheet = b] : b \in BalanceSheets}
  /\ gm = F(1) /\ symbol = <<"A">>
  /\ pc = "balance_sheet"
  /\ base = Unset /\ error = ""
  /\ RunIdle /\ GridIdle /\ calls = <<>> /\ CallIdle

BalanceCall ==
  /\ pc = "balance_sheet"
  /\ args' = <<snap.balancesheet>>
  /\ ret' = [cash |-> best_effort_cash(snap.balancesheet),
             total_debt |-> best_effort_total_debt(snap.balancesheet)]
  /\ pc' = "sens_call"
  /\ UNCHANGED <<cfg, symbol, snap, gm, base, error, calls, runVars, gridVars>>

BalanceSpec == BalanceInit /\ [][BalanceCall \/ SensProject]_vars

\* best_effort_working_capital_ratio(balance_sheet, revenue) and
\* best_effort_capex_ratio(cashflow, revenue), then dcf_one, on histories of
\* up to MaxPeriods periods.
MaxPeriods == 6

\* A statement row over the periods top, top - 1, ..., most recent first.
Row(top, values) == [i \in 1..Len(values) |-> Col(top + 1 - i, values[i])]

\* Rows over all MaxPeriods periods, most recent first: revenue growing by 20
\* a period from 100, EBIT a fifth of it, working capital growing faster
\* than revenue, capex (an outflow) peaking in the second period.
RevenueRow == Row(MaxPeriods, [i \in 1..MaxPeriods |-> F(100 + 20 * (MaxPeriods - i))])
EbitRow == Row(MaxPeriods, [i \in 1..MaxPeriods |-> F(20 + 4 * (MaxPeriods - i))])
WorkingCapitalRow ==
  Row(MaxPeriods,
      [i \in 1..MaxPeriods |-> F((MaxPeriods + 1 - i) * (MaxPeriods + 5 - i))])
CapexRow ==
  Row(MaxPeriods,
      [i \in 1..MaxPeriods |->
         F((MaxPeriods - 1 - i) * (MaxPeriods - 1 - i) - 36)])
\* The three oldest periods of a row.
Oldest3(row) == SubSeq(row, Len(row) - 2, Len(row))

LongRevenues ==
  {("Total Revenue" :> RevenueRow),
   ("Total Revenue" :> [RevenueRow EXCEPT ![3].v = Zero]),
   ("Total Revenue" :> SubSeq(RevenueRow, 1, 3))}
LongEbit == ("EBIT" :> EbitRow)

WorkingCapitalRows ==
  {EmptyTable,
   ("Working Capital" :> WorkingCapitalRow),
   \* the same row in a table that lists the oldest period first
   ("Working Capital" :> Reversed(WorkingCapitalRow)),
   ("Working Capital" :> [WorkingCapitalRow EXCEPT ![2].v = NaN]),
   ("Working Capital" :> SubSeq(WorkingCapitalRow, 2, 4)),
   ("Working Capital" :> Oldest3(WorkingCapitalRow)),
   ("Working Capital" :> Row(MaxPeriods, <<NaN, NaN>>))
     @@ ("Current Assets" :> Row(MaxPeriods, <<F(90), F(80), F(70)>>))
     @@ ("Current Liabilities" :> Row(MaxPeriods, <<F(30), F(35), F(38)>>)),
   ("Cash" :> Row(MaxPeriods, <<F(20)>>))}
CapexRows ==
  {EmptyTable,
   ("Capital Expenditure" :> CapexRow),
   ("Capital Expenditure" :> Row(MaxPeriods, <<NaN>>))
     @@ ("CapitalExpenditures" :> SubSeq(CapexRow, 1, 2)),
   ("Capital Expenditure" :> Oldest3(CapexRow)),
   ("Free Cash Flow" :> Row(MaxPeriods, <<F(10)>>))}
DepreciationRows ==
  {EmptyTable,
   ("Reconciled Depreciation" :> SeriesAbs(CapexRow)),
   ("Depreciation And Amortization" :> Row(MaxPeriods - 2, <<F(7), F(6)>>))}

RatioSnapshots ==
  {Snapshot(GoodInfo, F(9), r @@ LongEbit @@ d, w, c) :
     r \in LongRevenues, d \in DepreciationRows, w \in WorkingCapitalRows, c \in CapexRows}

RatioInit ==
  /\ cfg = DCFConfig(2, 1, <<0>>, <<0>>, "AU")
  /\ snap \in RatioSnapshots
  /\ gm = F(1) /\ symbol = <<"A">>
  /\ pc = "ratios"
  /\ base = Unset /\ error = ""
  /\ RunIdle /\ GridIdle /\ calls = <<>> /\ CallIdle

\* The two calls as dcf_one makes them, lines 122 and 124.
RatioCall ==
  /\ pc = "ratios"
  /\ LET revenue == Reversed(DropNa(best_effort_revenue_series(snap.financials)))
     IN /\ args' = <<revenue>>
        /\ ret' = [wc_ratio |-> best_effort_working_capital_ratio(snap.balancesheet, revenue),
                   capex_ratio |-> best_effort_capex_ratio(snap.cashflow, revenue)]
  /\ pc' = "dcf_call"
  /\ UNCHANGED <<cfg, symbol, snap, gm, base, error, calls, runVars, gridVars>>

RatioSpec == RatioInit /\ [][RatioCall \/ DirectDcfOne]_vars

\* dcf_one up to its forecast (lines 45-158), on cash-flow tables with and
\* without a usable capex history.
ForecastRevenues ==
  {("Total Revenue" :> RevenueRow),
   ("Total Revenue" :> [RevenueRow EXCEPT ![1].v = Zero]),
   ("Total Revenue" :> SubSeq(RevenueRow, 1, 3))}
ForecastCapexRows ==
  {EmptyTable,
   ("Capital Expenditure" :> CapexRow),
   ("Capital Expenditure" :> Row(MaxPeriods, <<NaN>>))
     @@ ("CapitalExpenditures" :> SubSeq(CapexRow, 1, 2)),
   ("Capital Expenditure" :> Row(MaxPeriods, <<NaN, NaN>>)),
   ("Capital Expenditure" :> Oldest3(CapexRow)),
   ("Capital Expenditure" :> SubSeq(CapexRow, 1, 1)),
   ("Free Cash Flow" :> Row(MaxPeriods, <<F(10)>>))}
ForecastSnapshots ==
  {Snapshot(GoodInfo, F(9), r @@ LongEbit @@ d, w, c) :
     r \in ForecastRevenues,
     d \in {IncomeFull, IncomeAlt @@ ("Reconciled Depreciation" :> SeriesAbs(CapexRow))},
     w \in {BalanceAlt, ("Working Capital" :> SubSeq(WorkingCapitalRow, 1, 2))
                          @@ BalanceFull},
     c \in ForecastCapexRows}

ForecastInit ==
  /\ cfg \in {DCFConfig(2, 1, <<0>>, <<0>>, "AU"),
              DCFConfig(MaxYears, MaxYears \div 2, <<0>>, <<0>>, "US")}
  /\ snap \in ForecastSnapshots
  /\ gm \in {F(1), Dec(125, -2)} /\ symbol = <<"A">>
  /\ pc = "forecast"
  /\ base = Unset /\ error = ""
  /\ RunIdle /\ GridIdle /\ calls = <<>> /\ CallIdle

\* dcf_one, lines 61-158: the locals of the forecast, with the ratios r of
\* the history.
dcf_forecast(snap0, cfg0, last_revenue, r) ==
  LET tax_rate == dcf_rates(snap0, cfg0).tax_rate
      forecast_revenues ==
        dcf_forecast_revenues(cfg0, last_revenue, r.scenario_initial_growth)
  IN [last_revenue |-> last_revenue, tax_rate |-> tax_rate,
      ebit_margin_median |-> r.ebit_margin_median,
      da_ratio_median |-> r.da_ratio_median,
      wc_ratio_median |-> r.wc_ratio_median,
      capex_ratio |-> r.capex_ratio,
      forecast_revenues |-> forecast_revenues,
      unlevered_fcf |-> dcf_unlevered_fcf(cfg0, last_revenue, forecast_revenues, r, tax_rate)]

\* dcf_one run as far as line 158, its locals kept.
ForecastCall ==
  /\ pc = "forecast"
  /\ args' = <<Reversed(DropNa(best_effort_revenue_series(snap.financials)))>>
  /\ ret' = dcf_forecast(snap, cfg, args'[1][Len(args'[1])].v,
              dcf_ratios(snap, cfg, gm, args'[1],
                         Reversed(DropNa(best_effort_ebit_series(snap.financials)))))
  /\ pc' = "dcf_call"
  /\ UNCHANGED <<cfg, symbol, snap, gm, base, error, calls, runVars, gridVars>>

ForecastSpec == ForecastInit /\ [][ForecastCall \/ DirectDcfOne \/ SensProject]_vars

(***************************************************************************)
(* Properties.                                                             *)
(***************************************************************************)
InBand(v, lo, hi) == FLe(lo, v) /\ FLe(v, hi)

\* C4: terminal_value(last_fcf, g, r) divides by rate - g with rate = g + 0.01
\* when r <= g and rate = r otherwise; that divisor is strictly positive, no
\* ZeroDivisionError is raised, and the result is last_fcf*(1+g)/(rate - g);
\* last_fcf = 100, g = 0.02, r = 0.08 gives 1700.
C4_TerminalValueGuard ==
  pc = "returned" =>
    LET last_fcf == args[1]
        g == args[2]
        r == args[3]
        rate == IF FLe(r, g) THEN FAdd(g, Dec(1, -2)) ELSE r
        divisor == FSub(rate, g)
    IN /\ FGt(divisor, Zero)
       /\ ~IsRaise(ret)
       /\ ret = FDiv(FMul(last_fcf, FAdd(F(1), g)), divisor)
       /\ (args = <<F(100), Dec(2, -2), Dec(8, -2)>> => ret = F(1700))

\* C4 witness: a call with r = g has returned a finite value.
C4_Witness ==
  pc = "returned" /\ args[3] = args[2] /\ args[1] = F(100) /\ IsFin(ret) /\ ret.m > 0

\* C5: clamp returns default for a missing, non-numeric or non-finite x (within
\* the band when default is) and max(lo, min(hi, x)), within the band, for any
\* other x; the tax rate and pre-tax cost of debt of a dcf_one result lie in
\* their configured bands.
C5_ClampBand ==
  /\ pc = "returned" =>
       LET x == args[1]
           lo == args[2]
           hi == args[3]
           default == args[4]
       IN IF IsNone(x) \/ ~IsNumber(x) \/ ~IsFin(x)
          THEN ret = default /\ (InBand(default, lo, hi) => InBand(ret, lo, hi))
          ELSE ret = PyMax(lo, PyMin(hi, x)) /\ InBand(ret, lo, hi)
  /\ pc = "sens_call" /\ ~base.raised =>
       /\ InBand(base.value.tax_rate, cfg.tax_rate_min, cfg.tax_rate_max)
       /\ InBand(base.value.pretax_cost_of_debt, cfg.cod_min, cfg.cod_max)

\* C5 witness: dcf_one has returned with a raw tax rate above the band (6/10)
\* clamped to tax_rate_max.
C5_Witness ==
  /\ pc = "sens_call" /\ ~base.raised
  /\ FGt(FDiv(best_effort_tax_and_pretax(snap.financials).tax,
              best_effort_tax_and_pretax(snap.financials).pretax), cfg.tax_rate_max)
  /\ base.value.tax_rate = cfg.tax_rate_max

\* The exact value of x in units of 10^e0, for e0 <= x.e.
ExactAt(x, e0) == x.m * 10^(x.e - e0)
UlpAt(x, e0) == IF x.m = 0 THEN 0 ELSE 10^(x.e - e0)
\* |a - b| <= (ulp(c) + ulp(a)) / 2, in exact arithmetic.
WithinRounding(a, b, c) ==
  LET e0 == Min2(Min2(a.e, b.e), c.e)
  IN 2 * Abs(ExactAt(a, e0) - ExactAt(b, e0)) <= UlpAt(c, e0) + UlpAt(a, e0)

\* The parts of C6 about the length, the flat years and the fade.
GrowthPathShape ==
  pc = "returned" =>
    LET g0 == args[1]
        years == args[2]
        gT == args[3]
        fade_start == args[4]
    IN /\ Len(ret) = years
       /\ \A y \in 1..years :
            IF y <= fade_start THEN ret[y] = g0
            ELSE /\ ret[y] = FAdd(g0, FMul(FSub(gT, g0),
                                   FDiv(F(y - fade_start), F(Max2(years - fade_start, 1)))))
                 /\ IsFin(ret[y])
       /\ (fade_start < years /\ fade_start >= 1) => ret[fade_start] = g0

\* C6: build_growth_path returns years rates, g0 through year fade_start, the
\* linear fade after it, and for fade_start < years the final year's rate
\* equals gT exactly.
C6_FinalYearExact ==
  /\ GrowthPathShape
  /\ (pc = "returned" /\ args[4] < args[2]) => ret[args[2]] = args[3]

\* What the code does give for the final year: g0 + (gT - g0) as the
\* floating-point operations round it, which is gT to within the rounding of
\* the subtraction and of the addition.
FinalYearRounded ==
  /\ GrowthPathShape
  /\ (pc = "returned" /\ args[4] < args[2]) =>
       /\ ret[args[2]] = FAdd(args[1], FSub(args[3], args[1]))
       /\ WithinRounding(ret[args[2]], args[3], FSub(args[3], args[1]))

\* A path with a fade (1 <= fade_start < years) whose final rate is not gT.
FinalYearInexact ==
  /\ pc = "returned" /\ args[4] >= 1 /\ args[4] < args[2]
  /\ ret[args[2]] # args[3]

\* C9: calculate_wacc returns equity_cost whenever total debt <= 0 or market
\* cap <= 0, and otherwise (1-w)*equity_cost + w*cost_of_debt*(1-tax_rate) with
\* w = debt/(debt+market_cap); wacc(0, 1000, _, 0.09, _) = 0.09.
C9_Wacc ==
  pc = "returned" =>
    LET debt == args[1]
        market_cap == args[2]
        kd == args[3]
        ke == args[4]
        tax == args[5]
        weight == FDiv(debt, FAdd(debt, market_cap))
    IN /\ IF FLe(debt, Zero) \/ FLe(market_cap, Zero)
          THEN ret = ke
          ELSE ret = FAdd(FMul(FSub(F(1), weight), ke),
                          FMul(FMul(weight, kd), FSub(F(1), tax)))
       /\ (debt = Zero /\ market_cap = F(1000) /\ ke = Dec(9, -2)) => ret = Dec(9, -2)

\* C9 witness: a call with positive debt and a market cap of zero has returned
\* the equity cost.
C9_Witness ==
  pc = "returned" /\ FGt(args[1], Zero) /\ args[2] = Zero /\ ret = args[4]

GridEvents(stage) ==
  {i \in 1..Len(calls) : calls[i].by = "sensitivity_grid" /\ calls[i].stage = stage}
\* The shifts of the k-th pass of the grid loops.
WaccShiftOf(k) == cfg.sens_wacc_bps[((k - 1) \div Len(cfg.sens_tg_bps)) + 1]
GrowthShiftOf(k) == cfg.sens_tg_bps[((k - 1) % Len(cfg.sens_tg_bps)) + 1]

\* C1: in sensitivity_grid the data is fetched and the flows are derived once,
\* before the grid loop, whatever the sizes of the two grids; no pass of the
\* loop fetches or derives anything or changes the flows, and every row is
\* priced from that one flow sequence.
C1_FlowsOncePerGrid ==
  /\ [](pc \in {"sens_cell", "sens_ret"} =>
          /\ Cardinality(GridEvents("fetch")) = 1
          /\ Cardinality(GridEvents("flows")) = 1
          /\ \A k \in 1..Len(rows) :
               rows[k] = sensitivity_cell(symbol, frame, cfg,
                                          WaccShiftOf(k), GrowthShiftOf(k)).value)
  /\ [][pc = "sens_cell" => (frame' = frame /\ calls' = calls)]_vars

\* C1 witness: a 5 x 5 grid has been priced, 25 rows, from one derivation.
C1_Witness ==
  /\ pc = "sens_ret" /\ Len(rows) = 25 /\ IsFin(rows[25].dcf_price)
  /\ Cardinality(GridEvents("flows")) = 1

\* C2: on the same data, configuration and growth multiplier, every grid row
\* with both shifts 0 has the dcf_price and the wacc of the dcf_one result.
C2_ZeroShiftMatchesDcfOne ==
  (pc \in {"sens_cell", "sens_ret"} /\ ~base.raised) =>
    \A k \in 1..Len(rows) :
      (rows[k].wacc_bps_shift = 0 /\ rows[k].terminal_g_bps_shift = 0) =>
        /\ rows[k].dcf_price = base.value.dcf_price
        /\ rows[k].wacc = base.value.wacc

\* C2 witness: dcf_one returned a price and the grid has a zero-shift row.
C2_Witness ==
  /\ pc = "sens_ret" /\ ~base.raised /\ IsFin(base.value.dcf_price)
  /\ \E k \in 1..Len(rows) :
       /\ rows[k].wacc_bps_shift = 0 /\ rows[k].terminal_g_bps_shift = 0
       /\ IsFin(rows[k].dcf_price)
       /\ frame.cash # Zero

EventsFor(stage, mult) ==
  {i \in 1..Len(calls) : calls[i].stage = stage /\ calls[i].gm = mult}
ScenarioMultipliers ==
  {cfg.growth_mult_conservative, cfg.growth_mult_base, cfg.growth_mult_optimistic}

\* C3 as claimed: when a ticker of a run has been valued and its grid built,
\* the data was fetched and the flows derived exactly once for each growth
\* multiplier, the base multiplier included.
C3_OneProjectionPerMultiplier ==
  pc = "sens_ret" =>
    \A mult \in ScenarioMultipliers :
      /\ Cardinality(EventsFor("fetch", mult)) = 1
      /\ Cardinality(EventsFor("flows", mult)) = 1

IsPrefix(a, b) == Len(a) <= Len(b) /\ SubSeq(b, 1, Len(a)) = a
RECURSIVE NonBlank(_)
NonBlank(cells) ==
  IF cells = <<>> THEN <<>>
  ELSE IF Strip(Head(cells)) = <<>> THEN NonBlank(Tail(cells))
  ELSE <<Strip(Head(cells))>> \o NonBlank(Tail(cells))
Reported == [i \in 1..Len(log) |-> log[i].symbol]

\* C7: an exception of one ticker is caught and reported for that ticker, the
\* collected rows are left as they were and only ever grow, the loop goes on
\* to the next cell, the non-blank tickers are attempted in input order, and
\* the output stage is reached.
C7_FailureIsolated ==
  /\ [][(pc = "except" \/ pc = "sens_raised") =>
          (/\ pc' = "loop" /\ idx' = idx + 1
           /\ log' = Append(log, [line |-> "Error processing", symbol |-> symbol])
           /\ UNCHANGED <<scenario_rows, base_detail_rows, sens_rows>>)]_vars
  /\ [][(/\ IsPrefix(scenario_rows, scenario_rows')
         /\ IsPrefix(base_detail_rows, base_detail_rows')
         /\ IsPrefix(sens_rows, sens_rows'))]_vars
  /\ [](pc = "loop" => Reported = NonBlank(SubSeq(tickers, 1, idx)))
  /\ [](pc = "output" => Reported = NonBlank(tickers))
  /\ <>(pc = "output")

\* C7 witness: the output stage is reached after a ticker that failed and a
\* later ticker that was valued.
C7_Witness ==
  /\ pc = "output"
  /\ \E i, j \in 1..Len(log) :
       i < j /\ log[i].line = "Error processing" /\ log[j].line = "Done"
  /\ Len(scenario_rows) = 1

RevenueHistory == Reversed(DropNa(get_series(snap.financials, "Total Revenue")))
EbitHistory == Reversed(DropNa(best_effort_ebit_series(snap.financials)))
MarginHistory == DropNa(ReplaceInf(SeriesDiv(EbitHistory, RevenueHistory)))
FatalHistory ==
  Len(RevenueHistory) < 2 \/ Len(EbitHistory) = 0 \/ Len(MarginHistory) = 0

\* C8 as claimed: with fewer than 2 revenue periods, an empty EBIT series or an
\* empty EBIT-margin series, dcf_one raises and sensitivity_grid raises too: it
\* runs no pass of its loop and returns no rows.
C8_FatalForBoth ==
  FatalHistory =>
    /\ pc # "dcf_call" => base.raised
    /\ pc \notin {"sens_cell", "sens_ret"}

\* The part of C8 that holds: the three conditions are fatal for dcf_one.
FatalForDcfOne == (FatalHistory /\ pc # "dcf_call") => base.raised

\* The price of a row from the flows and scalars of the frame.
PriceAt(w, tg) ==
  LET pv == present_value(frame.unlevered_fcf, w)
      tv == FDiv(FMul(frame.unlevered_fcf[Len(frame.unlevered_fcf)], FAdd(F(1), tg)),
                 FSub(IF FLe(w, tg) THEN FAdd(tg, Dec(1, -2)) ELSE w, tg))
      ev == FAdd(SumSeq(pv, Len(pv)), FDiv(tv, FPow(FAdd(F(1), w), cfg.terminal_year)))
  IN FDiv(FSub(FAdd(ev, frame.cash), frame.total_debt), frame.shares)

\* C10: sensitivity_grid returns one row per (w_bps, g_bps) of the cross
\* product of the two grids, in loop order, and no other row (25 rows for the
\* default grids); the row reports wacc = base WACC + w_bps/10000 and
\* terminal_growth = configured terminal growth + g_bps/10000 and its price is
\* computed with these two rates.
C10_GridRows ==
  pc = "sens_ret" =>
    LET W == cfg.sens_wacc_bps
        G == cfg.sens_tg_bps
    IN /\ Len(rows) = Len(W) * Len(G)
       /\ (W = DefaultWaccBps /\ G = DefaultTgBps) => Len(rows) = 25
       /\ \A i \in 1..Len(W) : \A j \in 1..Len(G) :
            LET row == rows[(i - 1) * Len(G) + j]
            IN /\ row.ticker = symbol
               /\ row.wacc_bps_shift = W[i]
               /\ row.terminal_g_bps_shift = G[j]
               /\ row.wacc = FAdd(frame.base_wacc, FDiv(F(W[i]), F(10000)))
               /\ row.terminal_growth = FAdd(cfg.terminal_growth, FDiv(F(G[j]), F(10000)))
               /\ row.dcf_price = PriceAt(row.wacc, row.terminal_growth)

\* C10 witness: a 2 x 3 grid has returned 6 rows with different prices.
C10_Witness ==
  /\ pc = "sens_ret" /\ Len(cfg.sens_wacc_bps) = 2 /\ Len(cfg.sens_tg_bps) = 3
  /\ Len(rows) = 6 /\ IsFin(rows[1].dcf_price) /\ rows[1].dcf_price # rows[6].dcf_price
\* The first value of the first of the labels that the balance sheet has with
\* data, 0 when there is none.
FirstValue(labels) ==
  IF \E i \in 1..Len(labels) : Len(get_series(snap.balancesheet, labels[i])) > 0
  THEN get_series(snap.balancesheet,
         labels[CHOOSE i \in 1..Len(labels) :
                  /\ Len(get_series(snap.balancesheet, labels[i])) > 0
                  /\ \A j \in 1..(i - 1) :
                       Len(get_series(snap.balancesheet, labels[j])) = 0])[1].v
  ELSE Zero

\* C11: the cash and the total debt derived from the balance sheet are never
\* negative, neither as returned by best_effort_cash and
\* best_effort_total_debt nor as read by the equity value.
C11_NeverNegative ==
  /\ pc # "balance_sheet" => FGe(ret.cash, Zero) /\ FGe(ret.total_debt, Zero)
  /\ pc = "sens_cell" => FGe(frame.cash, Zero) /\ FGe(frame.total_debt, Zero)

\* A negative statement value came back as it stands.
NegativeReturned ==
  /\ pc = "sens_cell"
  /\ FLt(ret.cash, Zero) /\ FLt(frame.total_debt, Zero)

\* The rest of C11: a missing value is 0, total debt is "Total Debt" when it
\* has data and otherwise long-term plus short-term with a missing part as 0,
\* and the equity value reads these same two values.
BalanceLookups ==
  /\ pc # "balance_sheet" =>
       /\ ret.cash = FirstValue(<<"Cash And Cash Equivalents", "Cash",
                                  "Cash And Short Term Investments">>)
       /\ ret.total_debt =
            IF Len(get_series(snap.balancesheet, "Total Debt")) > 0
            THEN get_series(snap.balancesheet, "Total Debt")[1].v
            ELSE FAdd(FirstValue(<<"Long Term Debt",
                                   "Long Term Debt And Capital Lease Obligation">>),
                      FirstValue(<<"Short Long Term Debt", "Short Term Debt",
                                   "Current Debt">>))
  /\ pc = "sens_cell" => frame.cash = ret.cash /\ frame.total_debt = ret.total_debt

\* The ratio num/den of period p, and the periods both series have with a
\* finite ratio.
RatioAt(num, den, p) == FDiv(ValueAt(num, p), ValueAt(den, p))
AlignedPeriods(num, den) ==
  {p \in PeriodSet(num) \cap PeriodSet(den) : IsFin(RatioAt(num, den, p))}
\* The k most recent of the aligned periods, oldest first.
MostRecent(num, den, k) ==
  TailN(Ascending(AlignedPeriods(num, den)),
        Min2(k, Cardinality(AlignedPeriods(num, den))))
\* Median of the ratios of the most recent min(5, n) aligned periods, the
\* fallback when no period remains.
RecentMedian(num, den, fallback) ==
  IF AlignedPeriods(num, den) = {} THEN fallback
  ELSE Median([i \in 1..Len(MostRecent(num, den, 5)) |->
                 [p |-> MostRecent(num, den, 5)[i],
                  v |-> RatioAt(num, den, MostRecent(num, den, 5)[i])]])

\* The working-capital, capex and D&A series of the statements of snap.
WorkingCapitalHistory ==
  IF Len(get_series(snap.balancesheet, "Working Capital")) > 0
  THEN get_series(snap.balancesheet, "Working Capital")
  ELSE IF /\ Len(get_series(snap.balancesheet, "Current Assets")) > 0
          /\ Len(get_series(snap.balancesheet, "Current Liabilities")) > 0
       THEN DropNa(SeriesSub(get_series(snap.balancesheet, "Current Assets"),
                             get_series(snap.balancesheet, "Current Liabilities")))
       ELSE EmptySeries
CapexHistory ==
  SeriesAbs(IF Len(get_series(snap.cashflow, "Capital Expenditure")) > 0
            THEN get_series(snap.cashflow, "Capital Expenditure")
            ELSE get_series(snap.cashflow, "CapitalExpenditures"))
DepreciationHistory == best_effort_da_series(snap.financials)

\* C12: each of the three ratios is the median over the most recent
\* min(5, n) aligned periods with a finite ratio, whatever the order of the
\* periods in the statement table, and its fallback (0.0, None, 0.03) when no
\* period remains.
C12_MedianOfMostRecent ==
  /\ pc # "ratios" =>
       /\ ret.wc_ratio = RecentMedian(WorkingCapitalHistory, DropNa(args[1]), Zero)
       /\ ret.capex_ratio = RecentMedian(CapexHistory, DropNa(args[1]), None)
  /\ (pc = "sens_call" /\ ~base.raised) =>
       /\ base.value.da_ratio_median =
            RecentMedian(DepreciationHistory, DropNa(args[1]), Dec(3, -2))
       /\ base.value.wc_ratio_median = ret.wc_ratio

\* More than five aligned periods, supplied most recent first: the median is
\* taken over the five oldest.
MedianOfOldest ==
  /\ pc = "sens_call" /\ ~base.raised
  /\ Cardinality(AlignedPeriods(WorkingCapitalHistory, args[1])) > 5
  /\ WorkingCapitalHistory[1].p > WorkingCapitalHistory[2].p
  /\ ret.wc_ratio # RecentMedian(WorkingCapitalHistory, args[1], Zero)

\* What holds of C12: the D&A ratio always, and the other two ratios when at
\* most five aligned periods remain or the table lists the oldest period first.
MedianOfAtMostFive ==
  /\ pc # "ratios" =>
       /\ (\/ Cardinality(AlignedPeriods(WorkingCapitalHistory, args[1])) <= 5
           \/ WorkingCapitalHistory[1].p < WorkingCapitalHistory[2].p) =>
            ret.wc_ratio = RecentMedian(WorkingCapitalHistory, args[1], Zero)
       /\ (\/ Cardinality(AlignedPeriods(CapexHistory, args[1])) <= 5
           \/ CapexHistory[1].p < CapexHistory[2].p) =>
            ret.capex_ratio = RecentMedian(CapexHistory, args[1], None)
  /\ (pc = "sens_call" /\ ~base.raised) =>
       base.value.da_ratio_median = RecentMedian(DepreciationHistory, args[1], Dec(3, -2))

\* The forecast of year i as the locals of dcf_one give it: revenue, EBIAT,
\* D&A, the two forms of capex, and the flow for a given capex.
RevenueOf(i) == IF i = 0 THEN ret.last_revenue ELSE ret.forecast_revenues[i]
EbiatOf(i) == FMul(FMul(RevenueOf(i), ret.ebit_margin_median), FSub(F(1), ret.tax_rate))
DaOf(i) == FMul(RevenueOf(i), ret.da_ratio_median)
FallbackCapexOf(i) ==
  FAdd(DaOf(i), FMul(cfg.fallback_capex_extra_pct_of_rev, RevenueOf(i)))
RatioCapexOf(i) == FMul(RevenueOf(i), ret.capex_ratio)
FlowOf(i, capex) ==
  FSub(FSub(FAdd(EbiatOf(i), DaOf(i)), capex),
       FMul(ret.wc_ratio_median, FSub(RevenueOf(i), RevenueOf(i - 1))))

\* dcf_one and sensitivity_grid went through with the flows of the forecast.
ForecastNeverRaises ==
  /\ Len(ret.unlevered_fcf) = cfg.forecast_years
  /\ pc \in {"sens_call", "sens_cell", "sens_raised"} =>
       /\ ~base.raised
       /\ base.value.capex_ratio_used =
            (IF IsNone(ret.capex_ratio) THEN NaN ELSE ret.capex_ratio)
  /\ pc = "sens_cell" => frame.unlevered_fcf = ret.unlevered_fcf

\* No capex row with data (an empty table included), or no period shared
\* with revenue.
NoCapexRowOrPeriod ==
  \/ Len(CapexHistory) = 0
  \/ PeriodSet(CapexHistory) \cap PeriodSet(args[1]) = {}

\* C13 as stated: with no capex row with data or no period shared with
\* revenue the capex ratio is None and capex is D&A plus the extra fraction
\* of revenue, otherwise capex is revenue times the capex ratio; the flow is
\* EBIAT + D&A - capex - wc_ratio * (change of revenue), one per forecast year.
C13_AsStated ==
  pc # "forecast" =>
    /\ ForecastNeverRaises
    /\ IF NoCapexRowOrPeriod
       THEN /\ IsNone(ret.capex_ratio)
            /\ \A i \in 1..cfg.forecast_years :
                 ret.unlevered_fcf[i] = FlowOf(i, FallbackCapexOf(i))
       ELSE /\ IsFin(ret.capex_ratio)
            /\ \A i \in 1..cfg.forecast_years :
                 ret.unlevered_fcf[i] = FlowOf(i, RatioCapexOf(i))

\* C13: with no aligned period whose capex/revenue ratio is finite (no capex
\* row with data, an empty table, no period shared with revenue, or only
\* non-finite ratios) the capex ratio is None, nothing is raised and capex is
\* D&A plus the extra fraction of revenue in every forecast year; otherwise
\* capex is revenue times the capex ratio; in both cases the flow is
\* EBIAT + D&A - capex - wc_ratio * (change of revenue), one per forecast year.
C13_CapexFallback ==
  pc # "forecast" =>
    /\ ForecastNeverRaises
    /\ IF AlignedPeriods(CapexHistory, args[1]) = {}
       THEN /\ IsNone(ret.capex_ratio)
            /\ \A i \in 1..cfg.forecast_years :
                 ret.unlevered_fcf[i] = FlowOf(i, FallbackCapexOf(i))
       ELSE /\ IsFin(ret.capex_ratio)
            /\ \A i \in 1..cfg.forecast_years :
                 ret.unlevered_fcf[i] = FlowOf(i, RatioCapexOf(i))

\* dcf_one returned after a forecast on the fallback, with flows that differ
\* from those a capex of zero would give.
C13_Witness ==
  /\ pc = "sens_cell" /\ ~base.raised
  /\ IsEmptyTable(snap.cashflow) /\ IsNone(ret.capex_ratio)
  /\ cfg.forecast_years = MaxYears
  /\ IsFin(ret.unlevered_fcf[MaxYears])
  /\ FGt(FallbackCapexOf(MaxYears), Zero)
  /\ ret.unlevered_fcf[MaxYears] # FlowOf(MaxYears, Zero)

\* The symbols run() reported as done, in order.
DoneSymbols ==
  LET done == SelectSeq(log, LAMBDA l : l.line = "Done")
  IN [i \in 1..Len(done) |-> done[i].symbol]
TickersOf(collected) == [i \in 1..Len(collected) |-> collected[i].ticker]

\* C14: between two iterations of the loop of run() every ticker handled so
\* far has either a scenario row, a base-detail row and its sensitivity rows
\* (it was reported done) or none of the three.
C14_AllOrNothing ==
  pc = "loop" =>
    /\ TickersOf(scenario_rows) = DoneSymbols
    /\ TickersOf(base_detail_rows) = DoneSymbols
    /\ Len(sens_rows) = Len(DoneSymbols)
    /\ \A i \in 1..Len(sens_rows) :
         \A k \in 1..Len(sens_rows[i]) : sens_rows[i][k].ticker = DoneSymbols[i]

\* A ticker whose sensitivity_grid call raised keeps its scenario row and its
\* base-detail row.
RowsOfFailedTicker ==
  /\ pc = "loop" /\ Len(log) > 0
  /\ log[Len(log)].line = "Error processing"
  /\ Len(scenario_rows) > 0
  /\ scenario_rows[Len(scenario_rows)].ticker = log[Len(log)].symbol
  /\ Len(sens_rows) < Len(scenario_rows)

\* What holds of C14: the scenario rows and the base-detail rows go together,
\* and the sensitivity rows are those of the tickers reported done, each of
\* which has its scenario row.
RowsWithoutGrid ==
  pc = "loop" =>
    /\ TickersOf(scenario_rows) = TickersOf(base_detail_rows)
    /\ Len(sens_rows) = Len(DoneSymbols)
    /\ \A i \in 1..Len(sens_rows) :
         \A k \in 1..Len(sens_rows[i]) : sens_rows[i][k].ticker = DoneSymbols[i]
    /\ Len(DoneSymbols) <= Len(scenario_rows)

====
